---- MODULE Spec2Model ----
(***************************************************************************)
(* A model of the resolution and optimisation pipeline of the CSDL         *)
(* compiler of nv-redfish: the entity-type / property filter engine        *)
(* (compiler/context.rs), property composition                             *)
(* (compiler/compiled_properties.rs), the namespace-pruning optimizer      *)
(* (optimizer/prune_simple_types_namespaces.rs) and the identifier case    *)
(* converter (generator/casemungler.rs); of entity-type validation         *)
(* (edmx/entity_type.rs); of the renderings of the BMC credentials         *)
(* (bmc-http/credentials.rs); and of the vendor OEM accessors of a manager *)
(* and of a computer system (redfish/manager/item.rs,                      *)
(* redfish/computer_system/item.rs, redfish/oem); of the timestamp patch   *)
(* of the event service (redfish/event_service/patch.rs); and of           *)
(* ComputerSystem::set_boot_order (redfish/computer_system/item.rs).       *)
(*                                                                         *)
(* Text is a sequence of one-character strings, an identifier is such a    *)
(* sequence, a namespace is a non-empty sequence of identifiers, and       *)
(* Option<T> is a sequence of length 0 (None) or 1 (Some).                 *)
(***************************************************************************)
EXTENDS Integers, Sequences, FiniteSets, TLC

VARIABLES
    typename,      \* filter engine: the qualified name a filter is asked about
    fcall,         \* filter engine: the last call made and its arguments
    matched,       \* filter engine: what that call returned
    input,         \* optimizer: the Compiled value handed to the optimizer
    output,        \* optimizer: the type_nss, replacements and Compiled it returned
    src,           \* rev_join: the chain handed to rev_join
    joined,        \* rev_join: the CompiledProperties it returned
    s,             \* case converter: the input text
    munged,        \* case converter: the function applied and its output
    walk,          \* optimizer: one `while let Some(parent)` loop, step by step
    entity,        \* EDMX validation: the deserialized entity type
    validated,     \* EDMX validation: what DeEntityType::validate returned
    creds,         \* credentials: two BmcCredentials values
    shown,         \* credentials: their Debug and Display renderings
    manager,       \* OEM accessors: the manager resource
    lenovo,        \* OEM accessors: what Manager::oem_lenovo returned
    system,        \* OEM accessors: the computer-system resource
    accessed,      \* OEM accessors: what oem_hpe, oem_supermicro and the system's oem_lenovo returned
    panel,         \* OEM accessors: what the getters of the Lenovo system handle returned
    timestamp,     \* event patches: the EventTimestamp of a record, as UTF-8 bytes
    patched,       \* event patches: what fix_timestamp_offset returned for it
    computer,      \* boot order: the computer-system resource
    boot,          \* boot order: where set_boot_order stands, and its result
    requests       \* boot order: the requests sent to the BMC, in order

vars == <<typename, fcall, matched, input, output, src, joined, s, munged,
          walk, entity, validated, creds, shown, manager, lenovo, system,
          accessed, panel, timestamp, patched, computer, boot, requests>>

filterVars == <<typename, fcall, matched>>
pruneVars == <<input, output>>
joinVars == <<src, joined>>
caseVars == <<s, munged>>
walkVars == <<walk>>
validateVars == <<entity, validated>>
credVars == <<creds, shown>>
oemVars == <<manager, lenovo, system, accessed, panel>>
eventVars == <<timestamp, patched>>
bootVars == <<computer, boot, requests>>

(***************************************************************************)
(* Bounds of the model.                                                    *)
(***************************************************************************)
MaxDepth == 3
MaxPatterns == 2
MaxTypes == 2
MaxChain == 3
MaxStrLen == 3
MaxStampLen == 6
MaxBootOrder == 2

(***************************************************************************)
(* Option<T>.                                                              *)
(***************************************************************************)
None == <<>>
Some(x) == <<x>>
IsSome(o) == Len(o) = 1
Unwrap(o) == o[1]

\* Sequences over S of length 0..n.
SeqUpTo(S, n) == UNION {[1..k -> S] : k \in 0..n}

(***************************************************************************)
(* Characters.                                                             *)
(***************************************************************************)
UpperSeq == <<"A","B","C","D","E","F","G","H","I","J","K","L","M",
              "N","O","P","Q","R","S","T","U","V","W","X","Y","Z">>
LowerSeq == <<"a","b","c","d","e","f","g","h","i","j","k","l","m",
              "n","o","p","q","r","s","t","u","v","w","x","y","z">>
Digits == {"0","1","2","3","4","5","6","7","8","9"}

is_uppercase(ch) == \E i \in 1..Len(UpperSeq) : UpperSeq[i] = ch
is_lowercase(ch) == \E i \in 1..Len(LowerSeq) : LowerSeq[i] = ch
to_lowercase(ch) ==
    IF is_uppercase(ch)
    THEN LowerSeq[CHOOSE i \in 1..Len(UpperSeq) : UpperSeq[i] = ch]
    ELSE ch
to_ascii_uppercase(ch) ==
    IF is_lowercase(ch)
    THEN UpperSeq[CHOOSE i \in 1..Len(LowerSeq) : LowerSeq[i] = ch]
    ELSE ch
to_ascii_lowercase(ch) ==
    IF is_uppercase(ch)
    THEN LowerSeq[CHOOSE i \in 1..Len(UpperSeq) : UpperSeq[i] = ch]
    ELSE ch

(***************************************************************************)
(* Namespace and qualified-name model.                                     *)
(***************************************************************************)
\* SimpleIdentifier::from_str succeeds: the CSDL identifier grammar, a letter
\* or underscore followed by letters, digits and underscores.
IsSimpleIdentifier(id) ==
    /\ Len(id) >= 1
    /\ is_uppercase(id[1]) \/ is_lowercase(id[1]) \/ id[1] = "_"
    /\ \A i \in 2..Len(id) :
          is_uppercase(id[i]) \/ is_lowercase(id[i]) \/ id[i] \in Digits \/ id[i] = "_"

\* Namespace::get_id(depth): bounds-checked, depth counted from 0.
get_id(namespace, depth) ==
    IF depth < Len(namespace) THEN Some(namespace[depth + 1]) ELSE None

\* Namespace::parent(): drops the trailing segment, None once one segment remains.
parent(namespace) ==
    IF Len(namespace) > 1
    THEN Some(SubSeq(namespace, 1, Len(namespace) - 1))
    ELSE None

QualifiedName(name, namespace) == [name |-> name, namespace |-> namespace]

(***************************************************************************)
(* Filter engine: compiler/context.rs.                                     *)
(***************************************************************************)
\* The body of the `for depth in 0..typename.namespace.len()` loop of
\* EntityTypeFilterPattern::matches, from `depth` on.
RECURSIVE MatchesLoop(_, _, _)
MatchesLoop(self, tn, depth) ==
    IF depth >= Len(tn.namespace) THEN TRUE
    ELSE LET pattern_id == self.ns_ids[depth + 1]
             ns == get_id(tn.namespace, depth)
         IN  IF IsSome(pattern_id) /\ IsSome(ns) /\ Unwrap(pattern_id) # Unwrap(ns)
             THEN FALSE
             ELSE MatchesLoop(self, tn, depth + 1)

\* The depths at which the loop of EntityTypeFilterPattern::matches indexes
\* self.ns_ids and, for a non-wildcard segment, calls get_id: every depth from
\* `depth` on, up to the one the loop returns false at.
RECURSIVE LookupsLoop(_, _, _)
LookupsLoop(self, tn, depth) ==
    IF depth >= Len(tn.namespace) THEN {}
    ELSE IF depth + 1 \notin DOMAIN self.ns_ids THEN {depth}
    ELSE LET pattern_id == self.ns_ids[depth + 1]
             ns == get_id(tn.namespace, depth)
         IN  IF IsSome(pattern_id) /\ IsSome(ns) /\ Unwrap(pattern_id) # Unwrap(ns)
             THEN {depth}
             ELSE {depth} \cup LookupsLoop(self, tn, depth + 1)

\* The lookups of a matcher that forgets the segment-count test.
EntityTypeFilterPattern_lookups_NoLen(self, tn) ==
    IF self.names # {} /\ tn.name \notin self.names THEN {}
    ELSE LookupsLoop(self, tn, 0)

\* The depths EntityTypeFilterPattern::matches looks up on its way to its result.
EntityTypeFilterPattern_lookups(self, tn) ==
    IF self.names # {} /\ tn.name \notin self.names THEN {}
    ELSE IF Len(tn.namespace) # Len(self.ns_ids) THEN {}
    ELSE LookupsLoop(self, tn, 0)

\* A pattern matcher that accepts a namespace the pattern is a prefix of.
EntityTypeFilterPattern_matches_Prefix(self, tn) ==
    IF self.names # {} /\ tn.name \notin self.names THEN FALSE
    ELSE IF Len(tn.namespace) < Len(self.ns_ids) THEN FALSE
    ELSE \A d \in 1..Len(self.ns_ids) :
            IsSome(self.ns_ids[d]) => Unwrap(self.ns_ids[d]) = tn.namespace[d]

\* A pattern matcher that forgets the segment-count test.
EntityTypeFilterPattern_matches_NoLen(self, tn) ==
    IF self.names # {} /\ tn.name \notin self.names THEN FALSE
    ELSE \A d \in 1..Len(tn.namespace) :
            (d <= Len(self.ns_ids) /\ IsSome(self.ns_ids[d]))
                => Unwrap(self.ns_ids[d]) = tn.namespace[d]

EntityTypeFilterPattern_matches(self, tn) ==
    IF self.names # {} /\ tn.name \notin self.names THEN FALSE
    ELSE IF Len(tn.namespace) # Len(self.ns_ids) THEN FALSE
    ELSE MatchesLoop(self, tn, 0)

\* A filter whose restrictive branch also lets the empty list through.
EntityTypeFilter_matches_AlwaysEmpty(self, tn) ==
    \/ self.patterns = <<>>
    \/ \E i \in 1..Len(self.patterns) : EntityTypeFilterPattern_matches(self.patterns[i], tn)

EntityTypeFilter_matches(self, tn) ==
    IF self.permissive
    THEN \/ self.patterns = <<>>
         \/ \E i \in 1..Len(self.patterns) : EntityTypeFilterPattern_matches(self.patterns[i], tn)
    ELSE \E i \in 1..Len(self.patterns) : EntityTypeFilterPattern_matches(self.patterns[i], tn)

new_restrictive(patterns) == [patterns |-> patterns, permissive |-> FALSE]
new_permissive(patterns) == [patterns |-> patterns, permissive |-> TRUE]

\* str::split(sep): the pieces between the separators; never an empty list.
RECURSIVE Split(_, _)
Split(text, sep) ==
    IF \E i \in 1..Len(text) : text[i] = sep
    THEN LET i == CHOOSE k \in 1..Len(text) :
                     text[k] = sep /\ \A j \in 1..(k - 1) : text[j] # sep
         IN  <<SubSeq(text, 1, i - 1)>> \o Split(SubSeq(text, i + 1, Len(text)), sep)
    ELSE <<text>>

ParseOk(ns_ids, names) ==
    [ok |-> TRUE, ns_ids |-> ns_ids, names |-> names, err |-> "", token |-> <<>>]
ParseErr(err, token) ==
    [ok |-> FALSE, ns_ids |-> <<>>, names |-> {}, err |-> err, token |-> token]

\* collect::<Result<_, _>>() over the parsed identifiers: the first one that is
\* no identifier, if any.
FirstInvalid(ids) ==
    IF \E i \in 1..Len(ids) : ~IsSimpleIdentifier(ids[i])
    THEN Some(ids[CHOOSE i \in 1..Len(ids) :
                    /\ ~IsSimpleIdentifier(ids[i])
                    /\ \A j \in 1..(i - 1) : IsSimpleIdentifier(ids[j])])
    ELSE None

\* A parser that keeps the name segment among the namespace segments.
EntityTypeFilterPattern_from_str_KeepLast(text) ==
    LET ids == Split(text, ".")
    IN  ParseOk([i \in 1..Len(ids) |-> IF ids[i] = <<"*">> THEN None ELSE Some(ids[i])],
                IF ids[Len(ids)] = <<"*">> THEN {} ELSE {ids[Len(ids)]})

\* A parser that takes every namespace segment as it is written.
EntityTypeFilterPattern_from_str_NoNsCheck(text) ==
    LET all == Split(text, ".")
        name_pattern == all[Len(all)]
        ids == SubSeq(all, 1, Len(all) - 1)
        alts == IF name_pattern = <<"*">> THEN <<>> ELSE Split(name_pattern, "|")
    IN  IF IsSome(FirstInvalid(alts))
        THEN ParseErr("InvalidIdentifier", Unwrap(FirstInvalid(alts)))
        ELSE ParseOk([i \in 1..Len(ids) |-> IF ids[i] = <<"*">> THEN None ELSE Some(ids[i])],
                     {alts[i] : i \in 1..Len(alts)})

EntityTypeFilterPattern_from_str(text) ==
    LET all == Split(text, ".")
    IN  IF Len(all) = 0 THEN ParseErr("EmptyPattern", <<>>)
        ELSE
        LET name_pattern == all[Len(all)]
            ids == SubSeq(all, 1, Len(all) - 1)
            alts == IF name_pattern = <<"*">> THEN <<>> ELSE Split(name_pattern, "|")
            wild == [i \in 1..Len(ids) |-> ids[i] = <<"*">>]
            exact == [i \in 1..Len(ids) |-> IF wild[i] THEN <<"_">> ELSE ids[i]]
        IN  IF IsSome(FirstInvalid(alts))
            THEN ParseErr("InvalidIdentifier", Unwrap(FirstInvalid(alts)))
            ELSE IF IsSome(FirstInvalid(exact))
            THEN ParseErr("InvalidIdentifier", Unwrap(FirstInvalid(exact)))
            ELSE ParseOk([i \in 1..Len(ids) |-> IF wild[i] THEN None ELSE Some(ids[i])],
                         {alts[i] : i \in 1..Len(alts)})

PropertyPattern(type_filter, property_name) ==
    [type_filter |-> type_filter, property_name |-> property_name]

\* str::rsplit_once(sep): the text before and the text after the last separator,
\* None when the text has no separator.
rsplit_once(text, sep) ==
    IF \E i \in 1..Len(text) : text[i] = sep
    THEN LET i == CHOOSE k \in 1..Len(text) :
                     text[k] = sep /\ \A j \in (k + 1)..Len(text) : text[j] # sep
         IN  Some(<<SubSeq(text, 1, i - 1), SubSeq(text, i + 1, Len(text))>>)
    ELSE None

\* PropertyName::from_str succeeds: a property name is a simple identifier.
IsPropertyName(id) == IsSimpleIdentifier(id)

PropertyParseOk(type_filter, property_name) ==
    [ok |-> TRUE, err |-> "", cause |-> ParseOk(<<>>, {}),
     pattern |-> PropertyPattern(type_filter, property_name)]
PropertyParseErr(err, cause) ==
    [ok |-> FALSE, err |-> err, cause |-> cause,
     pattern |-> PropertyPattern([ns_ids |-> <<>>, names |-> {}], <<>>)]

\* A parser that reports a missing property name also when the text after the
\* last '/' is empty.
PropertyPattern_from_str_EmptyName(text) ==
    LET split == rsplit_once(text, "/")
    IN  IF IsSome(split) /\ Unwrap(split)[2] # <<>>
        THEN LET type_filter == EntityTypeFilterPattern_from_str(Unwrap(split)[1])
                 property_name == Unwrap(split)[2]
             IN  IF ~type_filter.ok THEN PropertyParseErr("TypeFilterPattern", type_filter)
                 ELSE IF ~IsPropertyName(property_name)
                 THEN PropertyParseErr("PropertyName", ParseOk(<<>>, {}))
                 ELSE PropertyParseOk([ns_ids |-> type_filter.ns_ids,
                                       names |-> type_filter.names], property_name)
        ELSE PropertyParseErr("NoPropertyNameDefined", ParseOk(<<>>, {}))

PropertyPattern_from_str(text) ==
    LET split == rsplit_once(text, "/")
    IN  IF IsSome(split)
        THEN LET type_filter == EntityTypeFilterPattern_from_str(Unwrap(split)[1])
                 property_name == Unwrap(split)[2]
             IN  IF ~type_filter.ok THEN PropertyParseErr("TypeFilterPattern", type_filter)
                 ELSE IF ~IsPropertyName(property_name)
                 THEN PropertyParseErr("PropertyName", ParseOk(<<>>, {}))
                 ELSE PropertyParseOk([ns_ids |-> type_filter.ns_ids,
                                       names |-> type_filter.names], property_name)
        ELSE PropertyParseErr("NoPropertyNameDefined", ParseOk(<<>>, {}))

\* The fold of PropertyFilter::new: `m.entry(k).or_default().push(v)` over the
\* patterns from position i on.
RECURSIVE PropertyFold(_, _, _)
PropertyFold(patterns, i, m) ==
    IF i > Len(patterns) THEN m
    ELSE LET k == patterns[i].property_name
             v == patterns[i].type_filter
             old == IF k \in DOMAIN m THEN m[k] ELSE <<>>
         IN  PropertyFold(patterns, i + 1,
                 [n \in DOMAIN m \cup {k} |-> IF n = k THEN Append(old, v) ELSE m[n]])

\* A fold that inserts instead of pushing: a later pattern overwrites an earlier one.
PropertyFilter_new_Overwrite(patterns) ==
    LET names == {patterns[i].property_name : i \in 1..Len(patterns)}
        last(n) == CHOOSE i \in 1..Len(patterns) :
                      /\ patterns[i].property_name = n
                      /\ \A j \in (i + 1)..Len(patterns) : patterns[j].property_name # n
    IN  [search_index |-> [n \in names |-> new_restrictive(<<patterns[last(n)].type_filter>>)]]

PropertyFilter_new(patterns) ==
    LET m == PropertyFold(patterns, 1, <<>>)
    IN  [search_index |-> [n \in DOMAIN m |-> new_restrictive(m[n])]]

PropertyFilter_matches(self, qtype, pname) ==
    /\ pname \in DOMAIN self.search_index
    /\ EntityTypeFilter_matches(self.search_index[pname], qtype)

(***************************************************************************)
(* The filter engine as a state machine: a qualified name is given, and    *)
(* one of the engine's entry points is called on it.                       *)
(***************************************************************************)
NsIdents == {<<"S">>, <<"v", "1">>}
TypeIdents == {<<"R", "t">>, <<"E">>}
PropNames == {<<"M">>, <<"L">>}

Namespaces == {ns \in SeqUpTo(NsIdents, MaxDepth) : Len(ns) >= 1}
QualifiedNames == {QualifiedName(n, ns) : n \in TypeIdents, ns \in Namespaces}

EntityTypeFilterPattern(ns_ids, names) == [ns_ids |-> ns_ids, names |-> names]
Patterns ==
    {EntityTypeFilterPattern(x, y) :
        x \in SeqUpTo({None} \cup {Some(i) : i \in NsIdents}, MaxDepth),
        y \in SUBSET TypeIdents}

\* The text "*.*." that the two-level wildcard pattern starts with.
StarStarDot == <<"*", ".", "*", ".">>

\* Pattern texts of the kinds the documentation of EntityTypeFilterPattern lists,
\* and some that are malformed.
PatternTexts ==
    { <<"S", ".", "*", ".", "*">>,
      <<"S", ".", "*", ".", "R", "t", "|", "E">>,
      <<"*", ".", "*", ".", "R", "t", "|", "E">>,
      <<"S", ".", "v", "1", ".", "R", "t">>,
      <<"*", ".", "E">>,
      <<"S", ".", "v", "1", ".", "S", ".", "*">>,
      <<"*">>,
      <<"R", "t">>,
      <<>>,
      <<"S", ".", ".", "R", "t">>,
      <<"S", ".", "*", ".", "R", "t", "|">>,
      <<"1", ".", "R", "t">>,
      <<"1", ".", "R", "t", "|">> }

AsPattern(parsed) == EntityTypeFilterPattern(parsed.ns_ids, parsed.names)

\* The patterns a configuration's filters are built from.
FilterPool ==
    {AsPattern(EntityTypeFilterPattern_from_str(t)) :
        t \in {u \in PatternTexts : EntityTypeFilterPattern_from_str(u).ok}}

PropertyPool ==
    {PropertyPattern(p, n) :
        p \in {EntityTypeFilterPattern(<<Some(<<"S">>), None>>, {}),
               EntityTypeFilterPattern(<<None, None>>, {<<"R", "t">>}),
               EntityTypeFilterPattern(<<None, Some(<<"v", "1">>), None>>, {<<"E">>})},
        n \in PropNames}

\* Property pattern texts: a type pattern text followed by '/' and a property
\* name (well-formed, empty or digit-led), a type pattern text alone, and a text
\* with two separators.
PropertyTexts ==
    {t \o <<"/">> \o n : t \in PatternTexts, n \in PropNames \cup {<<>>, <<"1">>}}
    \cup PatternTexts
    \cup {<<"S", "/", "E", "/", "M">>}

NoCall ==
    [op |-> "none", text |-> <<>>, parsed |-> ParseErr("", <<>>),
     pattern |-> EntityTypeFilterPattern(<<>>, {}),
     filter |-> new_permissive(<<>>),
     ppatterns |-> <<>>, pfilter |-> [search_index |-> <<>>], pname |-> <<>>,
     pparsed |-> PropertyParseErr("", ParseOk(<<>>, {}))]

InitFilter ==
    /\ typename \in QualifiedNames
    /\ fcall = NoCall
    /\ matched = FALSE

IdleFilter ==
    /\ typename = QualifiedName(<<>>, <<>>)
    /\ fcall = NoCall
    /\ matched = FALSE

\* EntityTypeFilterPattern::matches on any pattern.
PatternMatches ==
    /\ fcall.op = "none"
    /\ \E p \in Patterns :
          /\ fcall' = [fcall EXCEPT !.op = "pattern", !.pattern = p]
          /\ matched' = EntityTypeFilterPattern_matches(p, typename)
    /\ UNCHANGED typename

\* str::parse::<EntityTypeFilterPattern>() followed by matches.
ParseMatches ==
    /\ fcall.op = "none"
    /\ \E t \in PatternTexts \cup {StarStarDot \o typename.name} :
          LET parsed == EntityTypeFilterPattern_from_str(t)
          IN  /\ fcall' = [fcall EXCEPT !.op = "parse", !.text = t, !.parsed = parsed,
                                        !.pattern = AsPattern(parsed)]
              /\ matched' = (parsed.ok /\ EntityTypeFilterPattern_matches(AsPattern(parsed), typename))
    /\ UNCHANGED typename

\* EntityTypeFilter::new_permissive / new_restrictive followed by matches.
FilterMatches ==
    /\ fcall.op = "none"
    /\ \E ps \in SeqUpTo(FilterPool, MaxPatterns), permissive \in BOOLEAN :
          LET f == IF permissive THEN new_permissive(ps) ELSE new_restrictive(ps)
          IN  /\ fcall' = [fcall EXCEPT !.op = "filter", !.filter = f]
              /\ matched' = EntityTypeFilter_matches(f, typename)
    /\ UNCHANGED typename

\* PropertyFilter::new followed by matches.
PropertyMatches ==
    /\ fcall.op = "none"
    /\ \E ps \in SeqUpTo(PropertyPool, MaxPatterns), pname \in PropNames \cup {<<"N">>} :
          LET pf == PropertyFilter_new(ps)
          IN  /\ fcall' = [fcall EXCEPT !.op = "property", !.ppatterns = ps,
                                        !.pfilter = pf, !.pname = pname]
              /\ matched' = PropertyFilter_matches(pf, typename, pname)
    /\ UNCHANGED typename
\* str::parse::<PropertyPattern>() followed by PropertyFilter::new and matches
\* on the parsed property name.
ParsePropertyMatches ==
    /\ fcall.op = "none"
    /\ \E t \in PropertyTexts :
          LET pparsed == PropertyPattern_from_str(t)
              pf == PropertyFilter_new(IF pparsed.ok THEN <<pparsed.pattern>> ELSE <<>>)
          IN  /\ fcall' = [fcall EXCEPT !.op = "parse_property", !.text = t,
                                        !.pparsed = pparsed, !.pfilter = pf,
                                        !.pname = pparsed.pattern.property_name]
              /\ matched' = PropertyFilter_matches(pf, typename, pparsed.pattern.property_name)
    /\ UNCHANGED typename

(***************************************************************************)
(* Namespace-pruning optimizer: optimizer/prune_simple_types_namespaces.rs *)
(***************************************************************************)
\* The members of S in the order CHOOSE takes them.
RECURSIVE SetToSeq(_)
SetToSeq(S) ==
    IF S = {} THEN <<>>
    ELSE LET x == CHOOSE y \in S : TRUE IN <<x>> \o SetToSeq(S \ {x})

\* `while let Some(parent) = namespace.parent()` of the count pass:
\* `*matches.entry(parent).or_insert(0) += 1`, for every ancestor.
RECURSIVE CountWalk(_, _)
CountWalk(matches, namespace) ==
    IF IsSome(parent(namespace))
    THEN LET p == Unwrap(parent(namespace))
             old == IF p \in DOMAIN matches THEN matches[p] ELSE 0
         IN  CountWalk([n \in DOMAIN matches \cup {p} |->
                            IF n = p THEN old + 1 ELSE matches[n]], p)
    ELSE matches

\* Pass 1, the fold over simple_types.keys(): name -> ancestor namespace -> count.
RECURSIVE CountPass(_, _)
CountPass(keys, map) ==
    IF keys = {} THEN map
    ELSE LET name == CHOOSE k \in keys : TRUE
             matches == IF name.name \in DOMAIN map THEN map[name.name] ELSE <<>>
         IN  CountPass(keys \ {name},
                 [n \in DOMAIN map \cup {name.name} |->
                     IF n = name.name THEN CountWalk(matches, name.namespace) ELSE map[n]])

\* A climb that goes on through every recorded ancestor, whatever its count.
RECURSIVE BestWalk_NoBreak(_, _, _)
BestWalk_NoBreak(stats, namespace, best) ==
    IF IsSome(parent(namespace))
    THEN LET p == Unwrap(parent(namespace))
         IN  IF p \in DOMAIN stats
             THEN BestWalk_NoBreak(stats, p, Some(p))
             ELSE best
    ELSE best

\* A climb that takes one step only.
BestWalk_OneStep(stats, namespace, best) ==
    IF IsSome(parent(namespace))
    THEN LET p == Unwrap(parent(namespace))
         IN  IF p \in DOMAIN stats /\ stats[p] = 1 THEN Some(p) ELSE best
    ELSE best

\* `while let Some(parent) = namespace.parent()` of the selection pass: climb
\* while the count of the next ancestor is exactly 1.
RECURSIVE BestWalk(_, _, _)
BestWalk(stats, namespace, best) ==
    IF IsSome(parent(namespace))
    THEN LET p == Unwrap(parent(namespace))
         IN  IF p \in DOMAIN stats
             THEN IF stats[p] = 1 THEN BestWalk(stats, p, Some(p)) ELSE best
             ELSE best
    ELSE best

\* The closure of filter_map in pass 2: the replacement of `orig`, if any.
Replacement(type_nss, orig) ==
    IF orig.name \in DOMAIN type_nss
    THEN LET best == BestWalk(type_nss[orig.name], orig.namespace, None)
         IN  IF IsSome(best)
             THEN Some(QualifiedName(orig.name, Unwrap(best)))
             ELSE None
    ELSE None

\* Pass 2, collected into a HashMap: orig -> replacement.
Replacements(type_nss, keys) ==
    [orig \in {k \in keys : IsSome(Replacement(type_nss, k))} |->
        Unwrap(Replacement(type_nss, orig))]

\* super::replace: the replacement of a referenced name, or the name itself.
replace(t, replacements) ==
    IF t \in DOMAIN replacements THEN replacements[t] ELSE t

\* A map that makes every property type a One.
CompiledPropertyType_map_AlwaysOne(ptype, replacements) ==
    [variant |-> "One", type |-> replace(ptype.type, replacements)]

\* CompiledPropertyType::map.
CompiledPropertyType_map(ptype, replacements) ==
    [variant |-> ptype.variant, type |-> replace(ptype.type, replacements)]

\* CompiledProperty::map_type.
map_type(p, replacements) ==
    [p EXCEPT !.ptype = CompiledPropertyType_map(p.ptype, replacements)]

\* map_properties(map_prop) on a complex or entity type.
map_properties(v, replacements) ==
    [v EXCEPT !.properties =
        [i \in 1..Len(v.properties) |-> map_type(v.properties[i], replacements)]]

\* A result table that moves the entry of a replaced type under its replacement.
SimpleTypesOut_Moved(simple_types, replacements) ==
    LET moved == {replacements[o] : o \in DOMAIN simple_types \cap DOMAIN replacements}
        kept == {o \in DOMAIN simple_types : o \notin DOMAIN replacements}
    IN  [k \in kept \cup moved |->
            IF k \in kept THEN simple_types[k]
            ELSE simple_types[CHOOSE o \in DOMAIN simple_types \cap DOMAIN replacements :
                                  replacements[o] = k]]

\* The simple_types of the result: the entries whose key has no replacement.
SimpleTypesOut(simple_types, replacements) ==
    [k \in {o \in DOMAIN simple_types : o \notin DOMAIN replacements} |-> simple_types[k]]

\* Pass 3: the Compiled value returned.
ApplyReplacements(in, replacements) ==
    [simple_types |-> SimpleTypesOut(in.simple_types, replacements),
     complex_types |-> [n \in DOMAIN in.complex_types |->
                           map_properties(in.complex_types[n], replacements)],
     entity_types |-> [n \in DOMAIN in.entity_types |->
                          map_properties(in.entity_types[n], replacements)],
     root_singletons |-> in.root_singletons]

prune_simple_types_namespaces(in) ==
    LET type_nss == CountPass(DOMAIN in.simple_types, <<>>)
        replacements == Replacements(type_nss, DOMAIN in.simple_types)
    IN  [done |-> TRUE, type_nss |-> type_nss, replacements |-> replacements,
         compiled |-> ApplyReplacements(in, replacements),
         visited |-> <<SetToSeq(DOMAIN in.simple_types), SetToSeq(DOMAIN in.simple_types)>>]

\* The orders `simple_types.keys()` may yield the members of S in: a HashMap
\* iterates in an arbitrary order.
Orders(S) ==
    {f \in [1..Cardinality(S) -> S] : \A i, j \in 1..Cardinality(S) : f[i] = f[j] => i = j}

\* A count pass that starts the counts of a name afresh at every key:
\* `map.insert(name.name, ..)` in place of `map.entry(name.name).or_default()`.
RECURSIVE CountPassIn_Insert(_, _, _)
CountPassIn_Insert(order, i, map) ==
    IF i > Len(order) THEN map
    ELSE LET name == order[i]
         IN  CountPassIn_Insert(order, i + 1,
                 [n \in DOMAIN map \cup {name.name} |->
                     IF n = name.name THEN CountWalk(<<>>, name.namespace) ELSE map[n]])

\* Pass 1 with the keys visited in `order`, from position i on.
RECURSIVE CountPassIn(_, _, _)
CountPassIn(order, i, map) ==
    IF i > Len(order) THEN map
    ELSE LET name == order[i]
             matches == IF name.name \in DOMAIN map THEN map[name.name] ELSE <<>>
         IN  CountPassIn(order, i + 1,
                 [n \in DOMAIN map \cup {name.name} |->
                     IF n = name.name THEN CountWalk(matches, name.namespace) ELSE map[n]])

\* Pass 2 with the keys visited in `order`, from position i on: the pairs that
\* filter_map yields are inserted into the HashMap one after the other.
RECURSIVE ReplacementsIn(_, _, _, _)
ReplacementsIn(type_nss, order, i, m) ==
    IF i > Len(order) THEN m
    ELSE LET orig == order[i]
             r == Replacement(type_nss, orig)
         IN  ReplacementsIn(type_nss, order, i + 1,
                 IF IsSome(r)
                 THEN [k \in DOMAIN m \cup {orig} |-> IF k = orig THEN Unwrap(r) ELSE m[k]]
                 ELSE m)

\* prune_simple_types_namespaces with the two passes visiting the keys in the
\* given orders.
prune_in_order(in, count_order, select_order) ==
    LET type_nss == CountPassIn(count_order, 1, <<>>)
        replacements == ReplacementsIn(type_nss, select_order, 1, <<>>)
    IN  [done |-> TRUE, type_nss |-> type_nss, replacements |-> replacements,
         compiled |-> ApplyReplacements(in, replacements),
         visited |-> <<count_order, select_order>>]

(***************************************************************************)
(* The optimizer as a state machine: a Compiled value is given, and the    *)
(* optimizer is run on it once.                                            *)
(***************************************************************************)
TopIdents == {<<"A">>, <<"B">>}
SubIdents == {<<"v", "1">>, <<"v", "2">>}
SimpleNames == {<<"T">>, <<"U">>}

\* Namespaces A, A.v1, A.v1.v2, ...: a top-level segment and up to MaxDepth - 1 more.
TypeNamespaces ==
    {<<top>> \o rest : top \in TopIdents, rest \in SeqUpTo(SubIdents, MaxDepth - 1)}
SimpleTypeNames == {QualifiedName(n, ns) : n \in SimpleNames, ns \in TypeNamespaces}

\* The sets of at most n members of S.
SubsetsUpTo(S, n) == {{f[i] : i \in 1..k} : k \in 0..n, f \in [1..n -> S]}

ComplexName == QualifiedName(<<"C">>, <<<<"A">>, <<"v", "1">>>>)
EntityName == QualifiedName(<<"E">>, <<<<"A">>, <<"v", "1">>>>)

One(t) == [variant |-> "One", type |-> t]
CollectionOf(t) == [variant |-> "CollectionOf", type |-> t]
CompiledProperty(name, ptype) == [name |-> name, ptype |-> ptype]

\* The digit that numbers the i-th property of a type.
PropDigits == <<"1", "2", "3", "4", "5", "6", "7", "8", "9">>

\* What a simple-types entry holds: its underlying type.
SimpleTypeValue(k) == IF k.name = <<"T">> THEN "TypeDefinition" ELSE "EnumType"

\* A Compiled value with the simple types `keys`: complex type C has one property
\* of each simple type, entity type E a collection of `r` and a property of type C.
CompiledOf(keys, r) ==
    LET ks == SetToSeq(keys)
    IN  [simple_types |-> [k \in keys |-> SimpleTypeValue(k)],
         complex_types |-> [n \in {ComplexName} |->
             [properties |-> [i \in 1..Len(ks) |-> CompiledProperty(<<"p", PropDigits[i]>>, One(ks[i]))]]],
         entity_types |-> [n \in {EntityName} |->
             [properties |-> <<CompiledProperty(<<"q">>, CollectionOf(r)),
                               CompiledProperty(<<"c">>, One(ComplexName))>>]],
         root_singletons |-> {EntityName}]

NotRun == [done |-> FALSE, type_nss |-> <<>>, replacements |-> <<>>,
           compiled |-> CompiledOf({}, ComplexName), visited |-> <<<<>>, <<>>>>]

InitPrune ==
    /\ \E keys \in SubsetsUpTo(SimpleTypeNames, MaxTypes) :
          \E r \in keys \cup {ComplexName} : input = CompiledOf(keys, r)
    /\ output = NotRun

IdlePrune ==
    /\ input = CompiledOf({}, ComplexName)
    /\ output = NotRun

Prune ==
    /\ ~output.done
    /\ output' = prune_simple_types_namespaces(input)
    /\ UNCHANGED input

\* The simple types declared under the top-level namespace A.
NamesUnderA == {k \in SimpleTypeNames : k.namespace[1] = <<"A">>}

InitOrder ==
    /\ \E keys \in SubsetsUpTo(NamesUnderA, MaxTypes) : input = CompiledOf(keys, ComplexName)
    /\ output = NotRun

\* The optimizer run with its two passes visiting the keys in any two orders.
PruneInOrder ==
    /\ ~output.done
    /\ \E count_order \in Orders(DOMAIN input.simple_types),
          select_order \in Orders(DOMAIN input.simple_types) :
          output' = prune_in_order(input, count_order, select_order)
    /\ UNCHANGED input

(***************************************************************************)
(* One `while let Some(parent) = namespace.parent()` loop of the optimizer *)
(* as a state machine: each step is one test of the loop condition and,    *)
(* when it holds, one run of the loop body.                                *)
(***************************************************************************)
AncestorsOf(namespace) == {SubSeq(namespace, 1, k) : k \in 1..(Len(namespace) - 1)}

\* The loop of pass "count" or "select" about to start on `namespace`; stats is
\* the `matches` counted so far, or the `stats` the selection reads.
NewWalk(pass, namespace, stats) ==
    [pass |-> pass, namespace |-> namespace, cursor |-> namespace, stats |-> stats,
     best |-> None, steps |-> 0, done |-> FALSE]

NoWalk == [pass |-> "none", namespace |-> <<<<"A">>>>, cursor |-> <<<<"A">>>>,
           stats |-> <<>>, best |-> None, steps |-> 0, done |-> TRUE]

\* A loop body that forgets `namespace = parent`.
walk_step_NoAdvance(w) ==
    IF IsSome(parent(w.cursor))
    THEN LET p == Unwrap(parent(w.cursor))
             old == IF p \in DOMAIN w.stats THEN w.stats[p] ELSE 0
         IN  IF w.pass = "count"
             THEN [w EXCEPT !.stats = [n \in DOMAIN w.stats \cup {p} |->
                                          IF n = p THEN old + 1 ELSE w.stats[n]],
                            !.steps = @ + 1]
             ELSE IF p \in DOMAIN w.stats /\ w.stats[p] = 1
             THEN [w EXCEPT !.best = Some(p), !.steps = @ + 1]
             ELSE [w EXCEPT !.done = TRUE]
    ELSE [w EXCEPT !.done = TRUE]

walk_step(w) ==
    IF IsSome(parent(w.cursor))
    THEN LET p == Unwrap(parent(w.cursor))
             old == IF p \in DOMAIN w.stats THEN w.stats[p] ELSE 0
         IN  IF w.pass = "count"
             THEN [w EXCEPT !.stats = [n \in DOMAIN w.stats \cup {p} |->
                                          IF n = p THEN old + 1 ELSE w.stats[n]],
                            !.cursor = p, !.steps = @ + 1]
             ELSE IF p \in DOMAIN w.stats /\ w.stats[p] = 1
             THEN [w EXCEPT !.best = Some(p), !.cursor = p, !.steps = @ + 1]
             ELSE [w EXCEPT !.done = TRUE]
    ELSE [w EXCEPT !.done = TRUE]

InitWalk ==
    \E ns \in TypeNamespaces :
        \/ walk = NewWalk("count", ns, <<>>)
        \/ \E stats \in [AncestorsOf(ns) -> 1..2] : walk = NewWalk("select", ns, stats)

IdleWalk == walk = NoWalk

WalkStep ==
    /\ ~walk.done
    /\ walk' = walk_step(walk)


(***************************************************************************)
(* Property composition: compiler/compiled_properties.rs.                  *)
(***************************************************************************)
CompiledProperties(properties, nav_properties) ==
    [properties |-> properties, nav_properties |-> nav_properties]

\* Iterator::rev.
Rev(seq) == [i \in 1..Len(seq) |-> seq[Len(seq) + 1 - i]]

\* Iterator::flatten().collect().
RECURSIVE Flatten(_)
Flatten(seqs) ==
    IF seqs = <<>> THEN <<>> ELSE Head(seqs) \o Flatten(Tail(seqs))

\* A join that forgets to reverse the chain.
rev_join_NoRev(chain) ==
    CompiledProperties(Flatten([i \in 1..Len(chain) |-> chain[i].properties]),
                       Flatten([i \in 1..Len(chain) |-> chain[i].nav_properties]))

\* The members of seq without those whose name an earlier member has.
RECURSIVE DedupByName(_)
DedupByName(seq) ==
    IF seq = <<>> THEN <<>>
    ELSE LET front == DedupByName(SubSeq(seq, 1, Len(seq) - 1))
             last == seq[Len(seq)]
         IN  IF \E i \in 1..Len(front) : front[i].name = last.name
             THEN front
             ELSE Append(front, last)

\* A join that keeps the first of the properties that share a name.
rev_join_KeepFirst(chain) ==
    LET properties == [i \in 1..Len(chain) |-> chain[i].properties]
        nav_properties == [i \in 1..Len(chain) |-> chain[i].nav_properties]
    IN  CompiledProperties(DedupByName(Flatten(Rev(properties))),
                           DedupByName(Flatten(Rev(nav_properties))))

rev_join(chain) ==
    LET properties == [i \in 1..Len(chain) |-> chain[i].properties]
        nav_properties == [i \in 1..Len(chain) |-> chain[i].nav_properties]
    IN  CompiledProperties(Flatten(Rev(properties)), Flatten(Rev(nav_properties)))

is_empty(self) == self.properties = <<>> /\ self.nav_properties = <<>>

(***************************************************************************)
(* rev_join as a state machine: a chain, most-derived type first, is given *)
(* and joined once.                                                        *)
(***************************************************************************)
StringType == QualifiedName(<<"S">>, <<<<"E">>>>)
Prop(n) == CompiledProperty(n, One(StringType))
Nav(n) == CompiledProperty(n, CollectionOf(EntityName))

\* The own properties of the types an inheritance chain is made of.
ChainPool ==
    { CompiledProperties(<<>>, <<>>),
      CompiledProperties(<<Prop(<<"I">>), Prop(<<"N">>)>>, <<>>),
      CompiledProperties(<<Prop(<<"S">>)>>, <<Nav(<<"L">>)>>),
      CompiledProperties(<<Prop(<<"N">>)>>, <<Nav(<<"M">>), Nav(<<"L">>)>>),
      CompiledProperties(<<Prop(<<"S">>), Prop(<<"I">>)>>, <<Nav(<<"L">>), Nav(<<"M">>)>>) }

NotJoined == [done |-> FALSE, value |-> CompiledProperties(<<>>, <<>>)]

InitJoin ==
    /\ src \in SeqUpTo(ChainPool, MaxChain)
    /\ joined = NotJoined

IdleJoin ==
    /\ src = <<>>
    /\ joined = NotJoined

RevJoin ==
    /\ ~joined.done
    /\ joined' = [done |-> TRUE, value |-> rev_join(src)]
    /\ UNCHANGED src

(***************************************************************************)
(* Identifier case converter: generator/casemungler.rs.                    *)
(***************************************************************************)
\* chars[from..].iter().take_while(|c| c.is_lowercase()).count(), from 1-based.
RECURSIVE LowerRun(_, _)
LowerRun(chars, from) ==
    IF from <= Len(chars) /\ is_lowercase(chars[from])
    THEN 1 + LowerRun(chars, from + 1)
    ELSE 0

\* A word boundary that asks for one lowercase letter only after an acronym.
WordBreak_OneLower(chars, i) ==
    LET ch == chars[i]
    IN  \/ ch = "_"
        \/ /\ i > 1
           /\ is_uppercase(ch)
           /\ \/ is_lowercase(chars[i - 1])
              \/ /\ is_uppercase(chars[i - 1])
                 /\ i + 1 <= Len(chars)
                 /\ is_lowercase(chars[i + 1])
                 /\ LowerRun(chars, i + 1) >= 1

\* The condition under which tokenize_to_words starts a new word at chars[i]
\* (i counted from 1).
WordBreak(chars, i) ==
    LET ch == chars[i]
    IN  \/ ch = "_"
        \/ /\ i > 1
           /\ is_uppercase(ch)
           /\ \/ is_lowercase(chars[i - 1])
              \/ /\ is_uppercase(chars[i - 1])
                 /\ i + 1 <= Len(chars)
                 /\ is_lowercase(chars[i + 1])
                 /\ LowerRun(chars, i + 1) >= 2

\* A fold that pushes the underscore onto the word it starts.
RECURSIVE TokenizeFold_KeepUnderscore(_, _, _)
TokenizeFold_KeepUnderscore(chars, i, words) ==
    IF i > Len(chars) THEN words
    ELSE LET pushed == IF WordBreak(chars, i) THEN Append(words, <<>>) ELSE words
             next == [pushed EXCEPT ![Len(pushed)] = Append(@, chars[i])]
         IN  TokenizeFold_KeepUnderscore(chars, i + 1, next)

\* The fold of tokenize_to_words from chars[i] on.
RECURSIVE TokenizeFold(_, _, _)
TokenizeFold(chars, i, words) ==
    IF i > Len(chars) THEN words
    ELSE LET pushed == IF WordBreak(chars, i) THEN Append(words, <<>>) ELSE words
             next == IF chars[i] # "_"
                     THEN [pushed EXCEPT ![Len(pushed)] = Append(@, chars[i])]
                     ELSE pushed
         IN  TokenizeFold(chars, i + 1, next)

tokenize_to_words(text) == TokenizeFold(text, 1, <<<<>>>>)

\* [String]::join(sep).
RECURSIVE Join(_, _)
Join(words, sep) ==
    IF Len(words) = 0 THEN <<>>
    ELSE IF Len(words) = 1 THEN words[1]
    ELSE words[1] \o <<sep>> \o Join(Tail(words), sep)

to_snake(text) ==
    LET joined_words == Join(tokenize_to_words(text), "_")
    IN  [i \in 1..Len(joined_words) |-> to_lowercase(joined_words[i])]

\* The closure to_camel folds over the words: first letter upper, rest lower.
CamelWord(word) ==
    [i \in 1..Len(word) |-> IF i = 1 THEN to_ascii_uppercase(word[i]) ELSE to_ascii_lowercase(word[i])]

to_camel(text) ==
    LET words == tokenize_to_words(text)
    IN  Flatten([i \in 1..Len(words) |-> CamelWord(words[i])])

(***************************************************************************)
(* The case converter as a state machine: a text is given and one of the   *)
(* two functions is applied to it.                                         *)
(***************************************************************************)
Text_PCIeFunctions == <<"P", "C", "I", "e", "F", "u", "n", "c", "t", "i", "o", "n", "s">>
Text_NVMe == <<"N", "V", "M", "e">>
Text_nVMEfoobar == <<"n", "V", "M", "E", "f", "o", "o", "b", "a", "r">>
Text_nVME == <<"n", "V", "M", "E">>
Text__Some_Thing_Is_Not_Right == <<"_", "S", "o", "m", "e", "_", "T", "h", "i", "n", "g", "_", "I", "s", "_", "N", "o", "t", "_", "R", "i", "g", "h", "t">>
Text_pcie_functions == <<"p", "c", "i", "e", "_", "f", "u", "n", "c", "t", "i", "o", "n", "s">>
Text_nvme == <<"n", "v", "m", "e">>
Text_n_vm_efoobar == <<"n", "_", "v", "m", "_", "e", "f", "o", "o", "b", "a", "r">>
Text_NVme == <<"N", "V", "m", "e">>
Text_SomeThingIsNotRight == <<"S", "o", "m", "e", "T", "h", "i", "n", "g", "I", "s", "N", "o", "t", "R", "i", "g", "h", "t">>

GoldenInputs ==
    {Text_PCIeFunctions, Text_NVMe, Text_nVMEfoobar, Text_nVME,
     Text__Some_Thing_Is_Not_Right}

CaseAlphabet == {"n", "V", "e", "_"}
CaseInputs == SeqUpTo(CaseAlphabet, MaxStrLen) \cup GoldenInputs

NotMunged == [fn |-> "none", out |-> <<>>]

InitCase ==
    /\ s \in CaseInputs
    /\ munged = NotMunged

IdleCase ==
    /\ s = <<>>
    /\ munged = NotMunged

ToSnake ==
    /\ munged.fn = "none"
    /\ munged' = [fn |-> "to_snake", out |-> to_snake(s)]
    /\ UNCHANGED s

ToCamel ==
    /\ munged.fn = "none"
    /\ munged' = [fn |-> "to_camel", out |-> to_camel(s)]
    /\ UNCHANGED s

(***************************************************************************)
(* EDMX validation: edmx/entity_type.rs, edmx/property.rs                  *)
(***************************************************************************)
MaxItems == 3

Ok(value) == [ok |-> TRUE, value |-> Some(value), err |-> None]
Err(err) == [ok |-> FALSE, value |-> None, err |-> Some(err)]

\* ValidateError::TooManyKeys, and ValidateError::EntityType(name, Box<inner>).
TooManyKeys == [kind |-> "TooManyKeys", name |-> <<>>, inner |-> "-"]
EntityTypeError(name, inner) == [kind |-> "EntityType", name |-> name, inner |-> inner.kind]

Property(name, attrs) == [name |-> name, attrs |-> attrs]

\* DeStructuralProperty::validate and DeNavigationProperty::validate: always Ok.
DeStructuralProperty_validate(self) == Ok(Property(self.name, "StructuralProperty"))
DeNavigationProperty_validate(self) == Ok(Property(self.name, "NavigationProperty"))

\* The members of seq of the given kinds, in order.
ItemsOfKind(seq, kinds) == SelectSeq(seq, LAMBDA v : v.kind \in kinds)

\* A validation that rejects an entity type as soon as it has a key.
DeEntityType_validate_AnyKey(self) ==
    IF Len(ItemsOfKind(self.items, {"Key"})) > 0
    THEN Err(EntityTypeError(self.name, TooManyKeys))
    ELSE Ok([name |-> self.name, key |-> None, properties |-> <<>>, annotations |-> <<>>])

DeEntityType_validate(self) ==
    LET keys == ItemsOfKind(self.items, {"Key"})
        des == ItemsOfKind(self.items, {"StructuralProperty", "NavigationProperty"})
        ps == [i \in 1..Len(des) |->
                  IF des[i].kind = "StructuralProperty"
                  THEN DeStructuralProperty_validate(des[i])
                  ELSE DeNavigationProperty_validate(des[i])]
        anns == ItemsOfKind(self.items, {"Annotation"})
    IN  IF Len(keys) > 1
        THEN Err(EntityTypeError(self.name, TooManyKeys))
        ELSE IF \E i \in 1..Len(ps) : ~ps[i].ok
        THEN LET i == CHOOSE k \in 1..Len(ps) : ~ps[k].ok /\ \A j \in 1..(k - 1) : ps[j].ok
             IN  Err(EntityTypeError(self.name, Unwrap(ps[i].err)))
        ELSE Ok([name |-> self.name,
                 key |-> IF keys = <<>> THEN None ELSE Some(keys[1]),
                 properties |-> [i \in 1..Len(ps) |-> Unwrap(ps[i].value)],
                 annotations |-> anns])

(***************************************************************************)
(* Validation as a state machine: a deserialized entity type is given and  *)
(* validated once.                                                         *)
(***************************************************************************)
ItemKinds == {"Key", "StructuralProperty", "NavigationProperty", "Annotation"}

\* The i-th item of an entity type: its kind, named after its position.
DeEntityTypeItem(kind, i) == [kind |-> kind, name |-> <<"p", PropDigits[i]>>]

DeEntityType(name, kinds) ==
    [name |-> name, items |-> [i \in 1..Len(kinds) |-> DeEntityTypeItem(kinds[i], i)]]

NotValidated == [done |-> FALSE, result |-> Err(TooManyKeys)]

InitValidate ==
    /\ \E name \in TypeIdents, kinds \in SeqUpTo(ItemKinds, MaxItems) :
          entity = DeEntityType(name, kinds)
    /\ validated = NotValidated

IdleValidate ==
    /\ entity = DeEntityType(<<>>, <<>>)
    /\ validated = NotValidated

Validate ==
    /\ ~validated.done
    /\ validated' = [done |-> TRUE, result |-> DeEntityType_validate(entity)]
    /\ UNCHANGED entity

(***************************************************************************)
(* BMC credentials: bmc-http/credentials.rs                                *)
(***************************************************************************)
MaxNameLen == 2

BmcCredentials(username, password) == [username |-> username, password |-> password]

Text_DebugOpen ==
    <<"B", "m", "c", "C", "r", "e", "d", "e", "n", "t", "i", "a", "l", "s",
      " ", "{", " ", "u", "s", "e", "r", "n", "a", "m", "e", ":", " ">>
Text_DebugPassword ==
    <<",", " ", "p", "a", "s", "s", "w", "o", "r", "d", ":", " ">>
Text_DebugClose ==
    <<" ", "}">>
Text_Redacted ==
    <<"[", "R", "E", "D", "A", "C", "T", "E", "D", "]">>
Text_DisplayOpen ==
    <<"B", "m", "c", "C", "r", "e", "d", "e", "n", "t", "i", "a", "l", "s",
      "(", "u", "s", "e", "r", "n", "a", "m", "e", ":", " ">>
Text_DisplayClose ==
    <<",", " ", "p", "a", "s", "s", "w", "o", "r", "d", ":", " ", "[", "R",
      "E", "D", "A", "C", "T", "E", "D", "]", ")">>

\* <str as Debug>::fmt: the text between double quotes, a double quote and a
\* backslash written with a backslash before them.
RECURSIVE escape_debug(_)
escape_debug(text) ==
    IF text = <<>> THEN <<>>
    ELSE (IF Head(text) \in {"\"", "\\"} THEN <<"\\", Head(text)>> ELSE <<Head(text)>>)
         \o escape_debug(Tail(text))

str_Debug(text) == <<"\"">> \o escape_debug(text) \o <<"\"">>

\* A Debug that writes the password field as it is.
BmcCredentials_Debug_Leak(self) ==
    Text_DebugOpen \o str_Debug(self.username) \o Text_DebugPassword
        \o str_Debug(self.password) \o Text_DebugClose

\* debug_struct("BmcCredentials").field("username", ..).field("password", &"[REDACTED]").
BmcCredentials_Debug(self) ==
    Text_DebugOpen \o str_Debug(self.username) \o Text_DebugPassword
        \o str_Debug(Text_Redacted) \o Text_DebugClose

\* write!(f, "BmcCredentials(username: {}, password: [REDACTED])", self.username).
BmcCredentials_Display(self) ==
    Text_DisplayOpen \o self.username \o Text_DisplayClose

(***************************************************************************)
(* Credentials as a state machine: two values are given and both are       *)
(* rendered with Debug and with Display.                                   *)
(***************************************************************************)
NameAlphabet == {"u", "\""}
Usernames == SeqUpTo(NameAlphabet, MaxNameLen)
Passwords == {<<>>, <<"s">>, <<"p", "w">>}

NotShown == [done |-> FALSE, debug |-> <<>>, display |-> <<>>]

InitCred ==
    /\ creds \in [1..2 -> {BmcCredentials(u, p) : u \in Usernames, p \in Passwords}]
    /\ shown = NotShown

IdleCred ==
    /\ creds = [i \in 1..2 |-> BmcCredentials(<<>>, <<>>)]
    /\ shown = NotShown

Format ==
    /\ ~shown.done
    /\ shown' = [done |-> TRUE,
                 debug |-> [i \in 1..2 |-> BmcCredentials_Debug(creds[i])],
                 display |-> [i \in 1..2 |-> BmcCredentials_Display(creds[i])]]
    /\ UNCHANGED creds

(***************************************************************************)
(* Manager OEM accessors: redfish/manager/item.rs, oem/lenovo/manager.rs   *)
(***************************************************************************)
\* JSON scalars the KCSEnabled member of Oem.Lenovo is sent as.
JsonBools == {"true", "false"}
JsonStates == {"\"Enabled\"", "\"Disabled\""}
JsonScalars == JsonBools \cup JsonStates \cup {"7"}

\* serde_json::from_value into the untagged LenovoManagerSchema: V0_1 takes
\* KCSEnabled as a boolean, V1_0 as an Enabled/Disabled state, in that order.
LenovoManagerSchema_from_value(value) ==
    IF value.KCSEnabled = None \/ Unwrap(value.KCSEnabled) \in JsonBools
    THEN Ok([variant |-> "V0_1", kcs_enabled |-> value.KCSEnabled])
    ELSE IF Unwrap(value.KCSEnabled) \in JsonStates
    THEN Ok([variant |-> "V1_0", kcs_enabled |-> value.KCSEnabled])
    ELSE Err("Json")

\* manager.base.base.oem.as_ref().and_then(|oem| oem.additional_properties.get(key)).
oem_get(data, key) ==
    IF IsSome(data.oem) /\ key \in DOMAIN Unwrap(data.oem).additional_properties
    THEN Some(Unwrap(data.oem).additional_properties[key])
    ELSE None

\* LenovoManager::new.
LenovoManager_new(data) ==
    LET found == oem_get(data, "Lenovo")
    IN  IF IsSome(found)
        THEN LET parsed == LenovoManagerSchema_from_value(Unwrap(found))
             IN  IF parsed.ok THEN Ok([data |-> Unwrap(parsed.value)]) ELSE Err("Json")
        ELSE Err("LenovoManagerNotAvailable")

\* Manager::oem_lenovo: what LenovoManager::new returns.
Manager_oem_lenovo(self) == LenovoManager_new(self.data)

\* serde_json::from_value into the HPE manager schema, whose
\* virtual_nic_enabled is an Option<bool>: a JSON boolean or no member.
HpeManagerSchema_from_value(value) ==
    IF value.VirtualNICEnabled = None
    THEN Ok([virtual_nic_enabled |-> None])
    ELSE IF Unwrap(value.VirtualNICEnabled) \in JsonBools
    THEN Ok([virtual_nic_enabled |-> Some(Unwrap(value.VirtualNICEnabled) = "true")])
    ELSE Err("Json")

\* An HPE manager wrapper that reports a payload it cannot parse as absent.
HpeManager_new_NoneOnError(data) ==
    LET found == oem_get(data, "Hpe")
    IN  IF IsSome(found)
        THEN LET parsed == HpeManagerSchema_from_value(Unwrap(found))
             IN  IF parsed.ok THEN Ok(Some([data |-> Unwrap(parsed.value)])) ELSE Ok(None)
        ELSE Ok(None)

\* HpeManager::new.
HpeManager_new(data) ==
    LET found == oem_get(data, "Hpe")
    IN  IF IsSome(found)
        THEN LET parsed == HpeManagerSchema_from_value(Unwrap(found))
             IN  IF parsed.ok THEN Ok(Some([data |-> Unwrap(parsed.value)])) ELSE Err("Json")
        ELSE Ok(None)

\* Manager::oem_hpe: what HpeManager::new returns.
Manager_oem_hpe(self) == HpeManager_new(self.data)

\* The JSON of a link: an object holding an @odata.id.
JsonReference == "{\"@odata.id\"}"

\* serde_json::from_value into the Supermicro manager schema, whose
\* kcs_interface is an optional link: a JSON object or no member.
SupermicroManagerSchema_from_value(value) ==
    IF value.KCSInterface = None
    THEN Ok([kcs_interface |-> None])
    ELSE IF Unwrap(value.KCSInterface) = JsonReference
    THEN Ok([kcs_interface |-> value.KCSInterface])
    ELSE Err("Json")

\* SupermicroManager::new.
SupermicroManager_new(data) ==
    LET found == oem_get(data, "Supermicro")
    IN  IF IsSome(found)
        THEN LET parsed == SupermicroManagerSchema_from_value(Unwrap(found))
             IN  IF parsed.ok THEN Ok(Some([data |-> Unwrap(parsed.value)])) ELSE Err("Json")
        ELSE Ok(None)

\* Manager::oem_supermicro: what SupermicroManager::new returns.
Manager_oem_supermicro(self) == SupermicroManager_new(self.data)

(***************************************************************************)
(* Computer-system OEM accessor: redfish/computer_system/item.rs,          *)
(* oem/lenovo/computer_system.rs                                           *)
(***************************************************************************)
\* The FpMode and PortSwitchingTo enumerations, from their JSON strings.
FpMode_from_value(json) ==
    IF json = "\"Server\"" THEN Ok("Server")
    ELSE IF json = "\"BMC\"" THEN Ok("Bmc")
    ELSE IF json = "\"Shared\"" THEN Ok("Shared")
    ELSE Err("Json")

PortSwitchingTo_from_value(json) ==
    IF json = "\"Server\"" THEN Ok("Server")
    ELSE IF json = "\"BMC\"" THEN Ok("Bmc")
    ELSE Err("Json")

\* An optional nullable member, Option<Option<T>>: no member is None, null is
\* Some(None), and a value is Some(Some(value)) when T takes it.
optional_nullable(member, parsed) ==
    IF member = None THEN Ok(None)
    ELSE IF Unwrap(member) = "null" THEN Ok(Some(None))
    ELSE IF parsed.ok THEN Ok(Some(Some(Unwrap(parsed.value))))
    ELSE Err("Json")

\* A member of Oem.Lenovo that holds a port assignment: absent, null, a
\* number, or an object with the members FPMode and PortSwitchingTo.
JsonMember(kind, fp_mode, port_switching_to) ==
    [kind |-> kind, FPMode |-> fp_mode, PortSwitchingTo |-> port_switching_to]

\* The port assignment object, itself optional and nullable.
PortAssignment_from_value(member) ==
    IF member.kind = "absent" THEN Ok(None)
    ELSE IF member.kind = "null" THEN Ok(Some(None))
    ELSE IF member.kind = "object"
    THEN LET fp_mode ==
                 optional_nullable(member.FPMode,
                     IF IsSome(member.FPMode)
                     THEN FpMode_from_value(Unwrap(member.FPMode)) ELSE Err("-"))
             port_switching_to ==
                 optional_nullable(member.PortSwitchingTo,
                     IF IsSome(member.PortSwitchingTo)
                     THEN PortSwitchingTo_from_value(Unwrap(member.PortSwitchingTo))
                     ELSE Err("-"))
         IN  IF fp_mode.ok /\ port_switching_to.ok
             THEN Ok(Some(Some([fp_mode |-> Unwrap(fp_mode.value),
                                port_switching_to |-> Unwrap(port_switching_to.value)])))
             ELSE Err("Json")
    ELSE Err("Json")

\* serde_json::from_value into LenovoSystemProperties.
LenovoSystemPropertiesSchema_from_value(value) ==
    LET usb == PortAssignment_from_value(value.USBManagementPortAssignment)
        front == PortAssignment_from_value(value.FrontPanelUSB)
    IN  IF usb.ok /\ front.ok
        THEN Ok([usb_management_port_assignment |-> Unwrap(usb.value),
                 front_panel_usb |-> Unwrap(front.value)])
        ELSE Err("Json")

\* LenovoComputerSystem::new.
LenovoComputerSystem_new(data) ==
    LET found == oem_get(data, "Lenovo")
    IN  IF IsSome(found)
        THEN LET parsed == LenovoSystemPropertiesSchema_from_value(Unwrap(found))
             IN  IF parsed.ok THEN Ok(Some([data |-> Unwrap(parsed.value)])) ELSE Err("Json")
        ELSE Ok(None)

\* ComputerSystem::oem_lenovo: what LenovoComputerSystem::new returns.
ComputerSystem_oem_lenovo(self) == LenovoComputerSystem_new(self.data)

\* Option::or_else and Option::and_then(identity).
or_else(option, other) == IF IsSome(option) THEN option ELSE other
flatten(option) == IF IsSome(option) THEN Unwrap(option) ELSE None

\* A getter that falls back to FrontPanelUSB whenever the first object gives
\* no front-panel mode.
LenovoComputerSystem_front_panel_mode_PerField(self) ==
    LET first == flatten(self.data.usb_management_port_assignment)
        second == flatten(self.data.front_panel_usb)
        a == IF IsSome(first) THEN flatten(Unwrap(first).fp_mode) ELSE None
        b == IF IsSome(second) THEN flatten(Unwrap(second).fp_mode) ELSE None
    IN  or_else(a, b)

\* LenovoComputerSystem::front_panel_mode.
LenovoComputerSystem_front_panel_mode(self) ==
    LET port == flatten(or_else(self.data.usb_management_port_assignment,
                                self.data.front_panel_usb))
    IN  IF IsSome(port) THEN flatten(Unwrap(port).fp_mode) ELSE None

\* LenovoComputerSystem::port_switching_to.
LenovoComputerSystem_port_switching_to(self) ==
    LET port == flatten(or_else(self.data.usb_management_port_assignment,
                                self.data.front_panel_usb))
    IN  IF IsSome(port) THEN flatten(Unwrap(port).port_switching_to) ELSE None

(***************************************************************************)
(* The accessors as a state machine: a manager resource or a               *)
(* computer-system resource is given, each accessor is called on it once,  *)
(* and the getters are called on the Lenovo handle of the system.          *)
(***************************************************************************)
VendorKeys == {"Lenovo", "Hpe", "Supermicro"}

\* The JSON objects sent under a vendor key of a manager: the members
\* KCSEnabled, VirtualNICEnabled and KCSInterface, each absent or a scalar.
JsonObject(kcs_enabled, virtual_nic_enabled, kcs_interface) ==
    [KCSEnabled |-> kcs_enabled, VirtualNICEnabled |-> virtual_nic_enabled,
     KCSInterface |-> kcs_interface]

OemValues ==
    {JsonObject(k, None, None) : k \in {None} \cup {Some(j) : j \in JsonScalars}}
HpeValues ==
    {JsonObject(None, v, None) :
        v \in {None} \cup {Some(j) : j \in JsonBools \cup {"\"true\""}}}
SupermicroValues ==
    {JsonObject(None, None, i) : i \in {None, Some(JsonReference), Some("7")}}

OemValuesOf(key) ==
    IF key = "Lenovo" THEN OemValues
    ELSE IF key = "Hpe" THEN HpeValues
    ELSE SupermicroValues

\* The manager resources: no Oem member, or an Oem member with any of the
\* vendor keys.
ManagerSchemas ==
    {[oem |-> None]} \cup
    {[oem |-> Some([additional_properties |-> ap])] :
        ap \in UNION {{f \in [K -> OemValues \cup HpeValues \cup SupermicroValues] :
                          \A k \in K : f[k] \in OemValuesOf(k)} :
                      K \in SUBSET VendorKeys}}

\* The port assignments of Oem.Lenovo of a computer system.
FpModeJson == {None, Some("null"), Some("\"Server\""), Some("\"BMC\""), Some("7")}
PortSwitchingToJson == {None, Some("\"Server\""), Some("\"BMC\"")}
JsonMembers ==
    {JsonMember(k, None, None) : k \in {"absent", "null", "number"}} \cup
    {JsonMember("object", m, p) : m \in FpModeJson, p \in PortSwitchingToJson}

LenovoSystemValues ==
    {[USBManagementPortAssignment |-> u, FrontPanelUSB |-> f] :
        u \in JsonMembers, f \in JsonMembers}

\* The computer-system resources: no Oem member, an Oem member without the
\* key Lenovo, or an Oem member with it.
NoPorts ==
    [USBManagementPortAssignment |-> JsonMember("absent", None, None),
     FrontPanelUSB |-> JsonMember("absent", None, None)]

ComputerSystemSchemas ==
    {[oem |-> None]} \cup
    {[oem |-> Some([additional_properties |->
                       [k \in K |-> IF k = "Lenovo" THEN v ELSE NoPorts]])] :
        K \in SUBSET {"Lenovo", "Hpe"}, v \in LenovoSystemValues}

NotCalled == [done |-> FALSE, result |-> Err("-")]
NotRead == [done |-> FALSE, value |-> None]
Accessors == {"oem_hpe", "oem_supermicro", "oem_lenovo"}

InitOem ==
    /\ \/ /\ manager \in {[data |-> d] : d \in ManagerSchemas}
          /\ system = [data |-> [oem |-> None]]
       \/ /\ manager = [data |-> [oem |-> None]]
          /\ system \in {[data |-> d] : d \in ComputerSystemSchemas}
    /\ lenovo = NotCalled
    /\ accessed = [a \in Accessors |-> NotCalled]
    /\ panel = [front_panel_mode |-> NotRead, port_switching_to |-> NotRead]

IdleOem ==
    /\ manager = [data |-> [oem |-> None]]
    /\ lenovo = NotCalled
    /\ system = [data |-> [oem |-> None]]
    /\ accessed = [a \in Accessors |-> NotCalled]
    /\ panel = [front_panel_mode |-> NotRead, port_switching_to |-> NotRead]

OemLenovo ==
    /\ ~lenovo.done
    /\ lenovo' = [done |-> TRUE, result |-> Manager_oem_lenovo(manager)]
    /\ UNCHANGED <<manager, system, accessed, panel>>

OemHpe ==
    /\ ~accessed["oem_hpe"].done
    /\ accessed' = [accessed EXCEPT !["oem_hpe"] =
                        [done |-> TRUE, result |-> Manager_oem_hpe(manager)]]
    /\ UNCHANGED <<manager, lenovo, system, panel>>

OemSupermicro ==
    /\ ~accessed["oem_supermicro"].done
    /\ accessed' = [accessed EXCEPT !["oem_supermicro"] =
                        [done |-> TRUE, result |-> Manager_oem_supermicro(manager)]]
    /\ UNCHANGED <<manager, lenovo, system, panel>>

SystemOemLenovo ==
    /\ ~accessed["oem_lenovo"].done
    /\ accessed' = [accessed EXCEPT !["oem_lenovo"] =
                        [done |-> TRUE, result |-> ComputerSystem_oem_lenovo(system)]]
    /\ UNCHANGED <<manager, lenovo, system, panel>>

\* The handle oem_lenovo returned, when it returned one.
LenovoHandle ==
    IF accessed["oem_lenovo"].done /\ accessed["oem_lenovo"].result.ok
    THEN Unwrap(accessed["oem_lenovo"].result.value)
    ELSE None

FrontPanelMode ==
    /\ IsSome(LenovoHandle)
    /\ ~panel.front_panel_mode.done
    /\ panel' = [panel EXCEPT !.front_panel_mode =
                     [done |-> TRUE,
                      value |-> LenovoComputerSystem_front_panel_mode(Unwrap(LenovoHandle))]]
    /\ UNCHANGED <<manager, lenovo, system, accessed>>

PortSwitchingTo ==
    /\ IsSome(LenovoHandle)
    /\ ~panel.port_switching_to.done
    /\ panel' = [panel EXCEPT !.port_switching_to =
                     [done |-> TRUE,
                      value |-> LenovoComputerSystem_port_switching_to(Unwrap(LenovoHandle))]]
    /\ UNCHANGED <<manager, lenovo, system, accessed>>

(***************************************************************************)
(* Event payload patches: redfish/event_service/patch.rs                   *)
(*                                                                         *)
(* A str is its UTF-8 bytes: an ASCII character is one byte, written as    *)
(* the character, and the two-byte character used here is the bytes C3 A9. *)
(***************************************************************************)
ContinuationBytes == {"A9"}

\* str::is_char_boundary, for a byte index counted from 0.
is_char_boundary(text, index) ==
    \/ index = 0
    \/ index = Len(text)
    \/ index < Len(text) /\ text[index + 1] \notin ContinuationBytes

\* input.get(index..) and input.get(..index).
get_from(text, index) ==
    IF index <= Len(text) /\ is_char_boundary(text, index)
    THEN Some(SubSeq(text, index + 1, Len(text)))
    ELSE None

get_to(text, index) ==
    IF index <= Len(text) /\ is_char_boundary(text, index)
    THEN Some(SubSeq(text, 1, index))
    ELSE None

\* A patch that inserts the colon without looking at the sign.
fix_timestamp_offset_AnySign(text) ==
    IF Len(text) < 5 THEN None
    ELSE LET sign_index == Len(text) - 5
             suffix == get_from(text, sign_index)
         IN  IF suffix = None THEN None
             ELSE LET prefix == get_to(text, sign_index + 3)
                      minutes == get_from(text, sign_index + 3)
                  IN  IF prefix = None \/ minutes = None THEN None
                      ELSE Some(Unwrap(prefix) \o <<":">> \o Unwrap(minutes))

\* fix_timestamp_offset.
fix_timestamp_offset(text) ==
    IF Len(text) < 5 THEN None
    ELSE LET sign_index == Len(text) - 5
             suffix == get_from(text, sign_index)
         IN  IF suffix = None THEN None
             ELSE LET sign == Unwrap(suffix)[1]
                  IN  IF sign # "+" /\ sign # "-" THEN None
                      ELSE LET prefix == get_to(text, sign_index + 3)
                               minutes == get_from(text, sign_index + 3)
                           IN  IF prefix = None \/ minutes = None THEN None
                               ELSE Some(Unwrap(prefix) \o <<":">> \o Unwrap(minutes))

(***************************************************************************)
(* The patch as a state machine: a timestamp is given and the patch is     *)
(* applied to it once.                                                     *)
(***************************************************************************)
StampChars == {<<"+">>, <<"-">>, <<":">>, <<"0">>, <<"6">>, <<"C3", "A9">>}

RECURSIVE Utf8(_)
Utf8(chars) == IF chars = <<>> THEN <<>> ELSE Head(chars) \o Utf8(Tail(chars))

NotPatched == [done |-> FALSE, result |-> None]

InitEvent ==
    /\ timestamp \in {Utf8(chars) : chars \in SeqUpTo(StampChars, MaxStampLen)}
    /\ patched = NotPatched

IdleEvent ==
    /\ timestamp = <<>>
    /\ patched = NotPatched

FixTimestamp ==
    /\ ~patched.done
    /\ patched' = [done |-> TRUE, result |-> fix_timestamp_offset(timestamp)]
    /\ UNCHANGED timestamp

(***************************************************************************)
(* Boot order update: redfish/computer_system/item.rs                      *)
(***************************************************************************)
\* A set_boot_order that never looks for the settings object.
update_odata_OwnId(self) == self.data.odata_id

\* settings.as_ref().map_or_else(|| self.data.odata_id(), |settings| settings.odata_id()).
update_odata(self) ==
    IF IsSome(self.data.settings_object)
    THEN Unwrap(self.data.settings_object)
    ELSE self.data.odata_id

\* What the BMC answers to the update: an error or a ModificationResponse,
\* whose entity is a link to fetch or the resource itself.
Response(kind, nav) == [kind |-> kind, nav |-> nav]
UpdateResponses ==
    {Response("Err", "-"), Response("Task", "-"), Response("Empty", "-"),
     Response("Entity", "Reference"), Response("Entity", "Expanded")}

NotStarted ==
    [pc |-> "idle", boot_order |-> <<>>, response |-> Response("-", "-"),
     result |-> Err("-")]

ODataIds == {"/Systems/1", "/Systems/2"}
SettingsIds == {"/Systems/1/Settings", "/Systems/1/SD"}
BootOptions == {"Boot0001", "Boot0002"}

InitBoot ==
    /\ computer \in {[data |-> [odata_id |-> i, settings_object |-> o]] :
                         i \in ODataIds, o \in {None} \cup {Some(x) : x \in SettingsIds}}
    /\ boot = NotStarted
    /\ requests = <<>>

IdleBoot ==
    /\ computer = [data |-> [odata_id |-> "/Systems/1", settings_object |-> None]]
    /\ boot = NotStarted
    /\ requests = <<>>

\* set_boot_order up to the await of bmc.update: the update is sent.
SetBootOrder ==
    /\ boot.pc = "idle"
    /\ \E boot_order \in SeqUpTo(BootOptions, MaxBootOrder) :
           /\ boot' = [boot EXCEPT !.pc = "update", !.boot_order = boot_order]
           /\ requests' = Append(requests,
                  [method |-> "update", target |-> update_odata(computer),
                   boot_order |-> boot_order])
    /\ UNCHANGED computer

\* The update returns: map_err(Error::Bmc)?, then the match on the response.
UpdateReturns ==
    /\ boot.pc = "update"
    /\ \E response \in UpdateResponses :
           IF response.kind = "Err"
           THEN /\ boot' = [boot EXCEPT !.pc = "done", !.response = response,
                                        !.result = Err("Bmc")]
                /\ UNCHANGED requests
           ELSE IF response.kind = "Entity"
           THEN IF response.nav = "Reference"
                THEN /\ boot' = [boot EXCEPT !.pc = "get", !.response = response]
                     /\ requests' = Append(requests,
                            [method |-> "get", target |-> "@nav", boot_order |-> <<>>])
                ELSE /\ boot' = [boot EXCEPT !.pc = "done", !.response = response,
                                             !.result = Ok(Some("Self"))]
                     /\ UNCHANGED requests
           ELSE /\ boot' = [boot EXCEPT !.pc = "done", !.response = response,
                                        !.result = Ok(None)]
                /\ UNCHANGED requests
    /\ UNCHANGED computer

\* nav.get returns: map_err(Error::Bmc)?, then Ok(Some(Self)).
GetReturns ==
    /\ boot.pc = "get"
    /\ \E fetched \in BOOLEAN :
           boot' = [boot EXCEPT !.pc = "done",
                       !.result = IF fetched THEN Ok(Some("Self")) ELSE Err("Bmc")]
    /\ UNCHANGED <<computer, requests>>

(***************************************************************************)
(* Specifications: one per component; the other components stay idle.      *)
(***************************************************************************)
FilterInit ==
    /\ InitFilter
    /\ IdlePrune
    /\ IdleJoin
    /\ IdleCase
    /\ IdleWalk
    /\ IdleValidate
    /\ IdleCred
    /\ IdleOem
    /\ IdleEvent
    /\ IdleBoot

FilterNext ==
    \/ PatternMatches /\ UNCHANGED <<pruneVars, joinVars, caseVars, walkVars, validateVars, credVars, oemVars, eventVars, bootVars>>
    \/ ParseMatches /\ UNCHANGED <<pruneVars, joinVars, caseVars, walkVars, validateVars, credVars, oemVars, eventVars, bootVars>>
    \/ FilterMatches /\ UNCHANGED <<pruneVars, joinVars, caseVars, walkVars, validateVars, credVars, oemVars, eventVars, bootVars>>
    \/ PropertyMatches /\ UNCHANGED <<pruneVars, joinVars, caseVars, walkVars, validateVars, credVars, oemVars, eventVars, bootVars>>
    \/ ParsePropertyMatches /\ UNCHANGED <<pruneVars, joinVars, caseVars, walkVars, validateVars, credVars, oemVars, eventVars, bootVars>>

SpecFilter == FilterInit /\ [][FilterNext]_vars

PruneInit ==
    /\ IdleFilter
    /\ InitPrune
    /\ IdleJoin
    /\ IdleCase
    /\ IdleWalk
    /\ IdleValidate
    /\ IdleCred
    /\ IdleOem
    /\ IdleEvent
    /\ IdleBoot

PruneNext == Prune /\ UNCHANGED <<filterVars, joinVars, caseVars, walkVars, validateVars, credVars, oemVars, eventVars, bootVars>>

SpecPrune == PruneInit /\ [][PruneNext]_vars

JoinInit ==
    /\ IdleFilter
    /\ IdlePrune
    /\ InitJoin
    /\ IdleCase
    /\ IdleWalk
    /\ IdleValidate
    /\ IdleCred
    /\ IdleOem
    /\ IdleEvent
    /\ IdleBoot

JoinNext == RevJoin /\ UNCHANGED <<filterVars, pruneVars, caseVars, walkVars, validateVars, credVars, oemVars, eventVars, bootVars>>

SpecJoin == JoinInit /\ [][JoinNext]_vars

CaseInit ==
    /\ IdleFilter
    /\ IdlePrune
    /\ IdleJoin
    /\ InitCase
    /\ IdleWalk
    /\ IdleValidate
    /\ IdleCred
    /\ IdleOem
    /\ IdleEvent
    /\ IdleBoot

CaseNext ==
    \/ ToSnake /\ UNCHANGED <<filterVars, pruneVars, joinVars, walkVars, validateVars, credVars, oemVars, eventVars, bootVars>>
    \/ ToCamel /\ UNCHANGED <<filterVars, pruneVars, joinVars, walkVars, validateVars, credVars, oemVars, eventVars, bootVars>>

SpecCase == CaseInit /\ [][CaseNext]_vars

OrderInit ==
    /\ IdleFilter
    /\ InitOrder
    /\ IdleJoin
    /\ IdleCase
    /\ IdleWalk
    /\ IdleValidate
    /\ IdleCred
    /\ IdleOem
    /\ IdleEvent
    /\ IdleBoot

OrderNext == PruneInOrder /\ UNCHANGED <<filterVars, joinVars, caseVars, walkVars, validateVars, credVars, oemVars, eventVars, bootVars>>

SpecOrder == OrderInit /\ [][OrderNext]_vars

ValidateInit ==
    /\ IdleFilter
    /\ IdlePrune
    /\ IdleJoin
    /\ IdleCase
    /\ IdleWalk
    /\ InitValidate
    /\ IdleCred
    /\ IdleOem
    /\ IdleEvent
    /\ IdleBoot

ValidateNext == Validate /\ UNCHANGED <<filterVars, pruneVars, joinVars, caseVars, walkVars, credVars, oemVars, eventVars, bootVars>>

SpecValidate == ValidateInit /\ [][ValidateNext]_vars

CredInit ==
    /\ IdleFilter
    /\ IdlePrune
    /\ IdleJoin
    /\ IdleCase
    /\ IdleWalk
    /\ IdleValidate
    /\ InitCred
    /\ IdleOem
    /\ IdleEvent
    /\ IdleBoot

CredNext == Format /\ UNCHANGED <<filterVars, pruneVars, joinVars, caseVars, walkVars, validateVars, oemVars, eventVars, bootVars>>

SpecCred == CredInit /\ [][CredNext]_vars

OemInit ==
    /\ IdleFilter
    /\ IdlePrune
    /\ IdleJoin
    /\ IdleCase
    /\ IdleWalk
    /\ IdleValidate
    /\ IdleCred
    /\ InitOem
    /\ IdleEvent
    /\ IdleBoot

OemNext ==
    \/ OemLenovo /\ UNCHANGED <<filterVars, pruneVars, joinVars, caseVars, walkVars, validateVars, credVars, eventVars, bootVars>>
    \/ OemHpe /\ UNCHANGED <<filterVars, pruneVars, joinVars, caseVars, walkVars, validateVars, credVars, eventVars, bootVars>>
    \/ OemSupermicro /\ UNCHANGED <<filterVars, pruneVars, joinVars, caseVars, walkVars, validateVars, credVars, eventVars, bootVars>>
    \/ SystemOemLenovo /\ UNCHANGED <<filterVars, pruneVars, joinVars, caseVars, walkVars, validateVars, credVars, eventVars, bootVars>>
    \/ FrontPanelMode /\ UNCHANGED <<filterVars, pruneVars, joinVars, caseVars, walkVars, validateVars, credVars, eventVars, bootVars>>
    \/ PortSwitchingTo /\ UNCHANGED <<filterVars, pruneVars, joinVars, caseVars, walkVars, validateVars, credVars, eventVars, bootVars>>

SpecOem == OemInit /\ [][OemNext]_vars

EventInit ==
    /\ IdleFilter
    /\ IdlePrune
    /\ IdleJoin
    /\ IdleCase
    /\ IdleWalk
    /\ IdleValidate
    /\ IdleCred
    /\ IdleOem
    /\ InitEvent
    /\ IdleBoot

EventNext == FixTimestamp /\ UNCHANGED <<filterVars, pruneVars, joinVars, caseVars, walkVars, validateVars, credVars, oemVars, bootVars>>

SpecEvent == EventInit /\ [][EventNext]_vars

BootInit ==
    /\ IdleFilter
    /\ IdlePrune
    /\ IdleJoin
    /\ IdleCase
    /\ IdleWalk
    /\ IdleValidate
    /\ IdleCred
    /\ IdleOem
    /\ IdleEvent
    /\ InitBoot

BootNext ==
    \/ SetBootOrder /\ UNCHANGED <<filterVars, pruneVars, joinVars, caseVars, walkVars, validateVars, credVars, oemVars, eventVars>>
    \/ UpdateReturns /\ UNCHANGED <<filterVars, pruneVars, joinVars, caseVars, walkVars, validateVars, credVars, oemVars, eventVars>>
    \/ GetReturns /\ UNCHANGED <<filterVars, pruneVars, joinVars, caseVars, walkVars, validateVars, credVars, oemVars, eventVars>>

SpecBoot == BootInit /\ [][BootNext]_vars

\* rev_join, the optimizer and one of its loops, each started on its own.
TotalInit ==
    /\ IdleFilter /\ IdleCase /\ IdleValidate /\ IdleCred /\ IdleOem
    /\ IdleEvent /\ IdleBoot
    /\ \/ InitJoin /\ IdlePrune /\ IdleWalk
       \/ IdleJoin /\ InitOrder /\ IdleWalk
       \/ IdleJoin /\ IdlePrune /\ InitWalk

TotalNext ==
    \/ RevJoin /\ UNCHANGED <<filterVars, pruneVars, caseVars, walkVars, validateVars, credVars, oemVars, eventVars, bootVars>>
    \/ Prune /\ UNCHANGED <<filterVars, joinVars, caseVars, walkVars, validateVars, credVars, oemVars, eventVars, bootVars>>
    \/ WalkStep /\ UNCHANGED <<filterVars, pruneVars, joinVars, caseVars, validateVars, credVars, oemVars, eventVars, bootVars>>

SpecTotal == TotalInit /\ [][TotalNext]_vars

(***************************************************************************)
(* Properties.                                                             *)
(***************************************************************************)
\* The match contract of a pattern P against a qualified name N: (a) as many
\* segments, (b) every non-wildcard segment equal at its position, (c) the
\* name set empty or holding N's name.
MatchContract(P, N) ==
    /\ Len(P.ns_ids) = Len(N.namespace)
    /\ \A d \in 1..Len(P.ns_ids) :
          (d <= Len(N.namespace) /\ P.ns_ids[d] # None) => P.ns_ids[d] = Some(N.namespace[d])
    /\ P.names = {} \/ N.name \in P.names

\* C1: for every pattern P and qualified name N, P.matches(N) is true if and
\* only if P has as many segments as N.namespace, every non-wildcard segment of
\* P equals N's segment at the same position, and P's name set is empty or
\* contains N.name.
C1_PatternMatchContract ==
    fcall.op = "pattern" => (matched <=> MatchContract(fcall.pattern, typename))

\* A three-segment pattern with a wildcard, exact segments and a name set has
\* matched a name.
C1_Witness ==
    /\ fcall.op = "pattern"
    /\ fcall.pattern = EntityTypeFilterPattern(<<Some(<<"S">>), None, Some(<<"v", "1">>)>>,
                                               {<<"R", "t">>})
    /\ typename = QualifiedName(<<"R", "t">>, <<<<"S">>, <<"S">>, <<"v", "1">>>>)
    /\ matched

C3_NoCollision ==
    output.done =>
        \A orig \in DOMAIN output.replacements :
            \A other \in DOMAIN input.simple_types :
                other # orig => output.replacements[orig] # other

\* C4: after the optimizer every property reference to a simple type, in the
\* complex types and in the entity types, is a key of the output simple_types.
C4_NoDanglingReference ==
    output.done =>
        \A tbl \in {"complex_types", "entity_types"} :
            \A n \in DOMAIN input[tbl] :
                \A i \in 1..Len(input[tbl][n].properties) :
                    input[tbl][n].properties[i].ptype.type \in DOMAIN input.simple_types
                        => output.compiled[tbl][n].properties[i].ptype.type
                               \in DOMAIN output.compiled.simple_types

\* C5: a simple type N in a namespace of two or more segments, whose name no
\* other simple type under N's top-level segment has, is replaced by N.name in
\* the namespace made of that top-level segment alone.
C5_HoistToTop ==
    output.done =>
        \A N \in DOMAIN input.simple_types :
            ( /\ Len(N.namespace) >= 2
              /\ \A M \in DOMAIN input.simple_types :
                    (M # N /\ M.name = N.name) => M.namespace[1] # N.namespace[1] )
            => /\ N \in DOMAIN output.replacements
               /\ output.replacements[N] = QualifiedName(N.name, <<N.namespace[1]>>)

\* Two types of the same name under different top-level segments, one of them
\* three segments deep, have both been hoisted to their top-level segment.
C5_Witness ==
    /\ output.done
    /\ \E N, M \in DOMAIN input.simple_types :
          /\ N.name = M.name
          /\ Len(N.namespace) = 3
          /\ N.namespace[1] # M.namespace[1]
          /\ Len(M.namespace) = 2
          /\ N \in DOMAIN output.replacements
          /\ M \in DOMAIN output.replacements
          /\ output.replacements[N] = QualifiedName(N.name, <<N.namespace[1]>>)
          /\ output.replacements[M] = QualifiedName(M.name, <<M.namespace[1]>>)

\* The ancestors of a namespace: its proper prefixes.
Ancestors(namespace) == {SubSeq(namespace, 1, k) : k \in 1..(Len(namespace) - 1)}

\* C6: when two distinct simple types of the same name share an ancestor
\* namespace P, neither is given a replacement namespace equal to P or to an
\* ancestor of P.
C6_ClimbStopsBelowSharedAncestor ==
    output.done =>
        \A N, M \in DOMAIN input.simple_types :
            (N # M /\ N.name = M.name) =>
                \A P \in Ancestors(N.namespace) \cap Ancestors(M.namespace) :
                    N \in DOMAIN output.replacements =>
                        output.replacements[N].namespace \notin (Ancestors(P) \cup {P})

\* Two types of the same name sharing the top-level ancestor: the deeper one
\* has climbed one step and stopped below the shared ancestor.
C6_Witness ==
    /\ output.done
    /\ \E N, M \in DOMAIN input.simple_types :
          /\ N # M /\ N.name = M.name
          /\ Len(N.namespace) = 3
          /\ <<N.namespace[1]>> \in Ancestors(M.namespace)
          /\ N \in DOMAIN output.replacements
          /\ output.replacements[N].namespace = SubSeq(N.namespace, 1, 2)
          /\ M \notin DOMAIN output.replacements

\* The lists of a chain's first n members, the n-th member's first.
RECURSIVE AncestorsFirst(_, _, _)
AncestorsFirst(chain, n, field) ==
    IF n = 0 THEN <<>> ELSE chain[n][field] \o AncestorsFirst(chain, n - 1, field)

\* C7: for a chain [c1, ..., cn], most-derived first, rev_join(chain) has the
\* properties cn ++ ... ++ c1 and the navigation properties cn ++ ... ++ c1.
C7_RevJoinOrder ==
    joined.done =>
        /\ joined.value.properties = AncestorsFirst(src, Len(src), "properties")
        /\ joined.value.nav_properties = AncestorsFirst(src, Len(src), "nav_properties")

\* A chain of three types with different own properties has been joined.
C7_Witness ==
    /\ joined.done
    /\ Len(src) = 3
    /\ src[1].properties # <<>> /\ src[3].properties # <<>>
    /\ src[1].properties # src[3].properties
    /\ src[1].nav_properties # src[3].nav_properties
    /\ joined.value.properties = src[3].properties \o src[2].properties \o src[1].properties

\* C8: PropertyFilter::new(L).matches(Q, p) is true if and only if L holds a
\* pattern whose property name is p and whose type pattern matches Q.
C8_PropertyFilterMatch ==
    fcall.op = "property" =>
        (matched <=>
            \E i \in 1..Len(fcall.ppatterns) :
                /\ fcall.ppatterns[i].property_name = fcall.pname
                /\ MatchContract(fcall.ppatterns[i].type_filter, typename))

\* Two patterns share a property name, the first matches the type and the
\* second does not: the filter has matched.
C8_Witness ==
    /\ fcall.op = "property"
    /\ Len(fcall.ppatterns) = 2
    /\ fcall.ppatterns[1].property_name = fcall.pname
    /\ fcall.ppatterns[2].property_name = fcall.pname
    /\ MatchContract(fcall.ppatterns[1].type_filter, typename)
    /\ ~MatchContract(fcall.ppatterns[2].type_filter, typename)
    /\ matched

\* C9: the pattern parsed from "*.*." followed by N.name matches N if and only
\* if N.namespace has exactly two segments.
C9_TwoWildcards ==
    (fcall.op = "parse" /\ fcall.text = StarStarDot \o typename.name) =>
        /\ fcall.parsed.ok
        /\ matched <=> Len(typename.namespace) = 2

\* "*.*.Rt" has been parsed and has matched a name in a two-segment namespace.
C9_Witness ==
    /\ fcall.op = "parse"
    /\ fcall.text = StarStarDot \o <<"R", "t">>
    /\ typename = QualifiedName(<<"R", "t">>, <<<<"S">>, <<"v", "1">>>>)
    /\ matched

\* C10: the golden vectors of the case converter.
C10_GoldenVectors ==
    /\ (munged.fn = "to_snake" /\ s = Text_PCIeFunctions) => munged.out = Text_pcie_functions
    /\ (munged.fn = "to_snake" /\ s = Text_NVMe) => munged.out = Text_nvme
    /\ (munged.fn = "to_snake" /\ s = Text_nVMEfoobar) => munged.out = Text_n_vm_efoobar
    /\ (munged.fn = "to_camel" /\ s = Text_nVME) => munged.out = Text_NVme
    /\ (munged.fn = "to_camel" /\ s = Text__Some_Thing_Is_Not_Right)
           => munged.out = Text_SomeThingIsNotRight
    /\ (munged.fn = "to_snake" /\ s = <<>>) => munged.out = <<>>
    /\ (munged.fn = "to_camel" /\ s = <<>>) => munged.out = <<>>

\* to_snake has been applied to "nVMEfoobar".
C10_Witness ==
    /\ munged.fn = "to_snake"
    /\ s = Text_nVMEfoobar
    /\ munged.out = Text_n_vm_efoobar

\* C11: parsing a pattern text that yields no name segment, the empty text for
\* one, fails with EmptyPattern.
C11_EmptyPattern ==
    (fcall.op = "parse" /\ fcall.text = <<>>) =>
        (~fcall.parsed.ok /\ fcall.parsed.err = "EmptyPattern")

\* The segments of a pattern text that are no identifier where one is needed:
\* a namespace segment other than "*", or a member of the name alternation
\* when the last segment is not "*".
Offending(text) ==
    LET segs == Split(text, ".")
        last == segs[Len(segs)]
        members == Split(last, "|")
    IN  {segs[i] : i \in {j \in 1..(Len(segs) - 1) :
                              segs[j] # <<"*">> /\ ~IsSimpleIdentifier(segs[j])}}
        \cup (IF last = <<"*">> THEN {}
              ELSE {members[i] : i \in {j \in 1..Len(members) :
                                           ~IsSimpleIdentifier(members[j])}})

C13_NoPropertyNameDefined ==
    fcall.op = "parse_property" =>
        ((~fcall.pparsed.ok /\ fcall.pparsed.err = "NoPropertyNameDefined")
            <=> \A i \in 1..Len(fcall.text) : fcall.text[i] # "/")

\* "S.*.*" has been parsed as a property pattern and has failed for want of a
\* property name.
C13_Witness ==
    /\ fcall.op = "parse_property"
    /\ fcall.text = <<"S", ".", "*", ".", "*">>
    /\ ~fcall.pparsed.ok
    /\ fcall.pparsed.err = "NoPropertyNameDefined"

\* C14: DeEntityType::validate fails if and only if the item list holds more
\* than one Key, and the failure is TooManyKeys wrapped in an entity-type error
\* that carries the name of the entity type.
C14_TooManyKeys ==
    validated.done =>
        LET nkeys == Cardinality({i \in 1..Len(entity.items) : entity.items[i].kind = "Key"})
        IN  /\ ~validated.result.ok <=> nkeys > 1
            /\ ~validated.result.ok =>
                   validated.result.err = Some(EntityTypeError(entity.name, TooManyKeys))

\* An entity type whose items are a Key, a Property and a Key has been rejected.
C14_Witness ==
    /\ validated.done
    /\ Len(entity.items) = 3
    /\ entity.items[1].kind = "Key"
    /\ entity.items[2].kind = "StructuralProperty"
    /\ entity.items[3].kind = "Key"
    /\ validated.result = Err(EntityTypeError(entity.name, TooManyKeys))

\* No two members of a property list share a name.
NamesUnique(props) ==
    \A i, j \in 1..Len(props) : props[i].name = props[j].name => i = j

\* No two declarations of the chain, in one type or in two, share a name.
ChainNamesDistinct(chain, field) ==
    \A a, b \in 1..Len(chain) :
        \A i \in 1..Len(chain[a][field]), j \in 1..Len(chain[b][field]) :
            chain[a][field][i].name = chain[b][field][j].name => (a = b /\ i = j)

\* C15, as stated: every name of the joined properties list is unique, also
\* when a derived type declares a name that an ancestor declares.
C15_UniqueNames ==
    joined.done => NamesUnique(joined.value.properties)

\* C15, amended: a joined list has unique names if and only if no name is
\* declared twice along the chain; rev_join neither drops nor renames.
C15_UniqueIffDistinct ==
    joined.done =>
        /\ NamesUnique(joined.value.properties) <=> ChainNamesDistinct(src, "properties")
        /\ NamesUnique(joined.value.nav_properties) <=> ChainNamesDistinct(src, "nav_properties")

\* A derived type and its base both declare N: the joined list holds N twice.
C15_Witness ==
    /\ joined.done
    /\ Len(src) = 2
    /\ src[1].properties = <<Prop(<<"N">>)>>
    /\ src[2].properties = <<Prop(<<"I">>), Prop(<<"N">>)>>
    /\ joined.value.properties = <<Prop(<<"I">>), Prop(<<"N">>), Prop(<<"N">>)>>

\* C16: the optimizer returns root_singletons and the key sets of complex_types
\* and entity_types unchanged, every property keeps its name and its variant,
\* and a type reference that is no key of the replacement map is untouched.
C16_Frame ==
    output.done =>
        /\ output.compiled.root_singletons = input.root_singletons
        /\ DOMAIN output.compiled.complex_types = DOMAIN input.complex_types
        /\ DOMAIN output.compiled.entity_types = DOMAIN input.entity_types
        /\ \A table \in {"complex_types", "entity_types"} :
              \A n \in DOMAIN input[table] :
                  LET before == input[table][n].properties
                      after == output.compiled[table][n].properties
                  IN  /\ Len(after) = Len(before)
                      /\ \A i \in 1..Len(before) :
                            /\ after[i].name = before[i].name
                            /\ after[i].ptype.variant = before[i].ptype.variant
                            /\ before[i].ptype.type \notin DOMAIN output.replacements
                                  => after[i].ptype.type = before[i].ptype.type

\* The collection property of E referred to a replaced simple type: it is still
\* a collection, of the replacement, and the property of type C is as it was.
C16_Witness ==
    /\ output.done
    /\ input.entity_types[EntityName].properties[1].ptype.type \in DOMAIN output.replacements
    /\ output.compiled.entity_types[EntityName].properties[1].ptype.variant = "CollectionOf"
    /\ output.compiled.entity_types[EntityName].properties[1].ptype.type
           # input.entity_types[EntityName].properties[1].ptype.type
    /\ output.compiled.entity_types[EntityName].properties[2].ptype = One(ComplexName)

\* C17: whatever orders the two passes visit the keys in, the counts, the
\* replacement map and the Compiled value are those of the run that visits them
\* in one fixed order.
C17_OrderIndependent ==
    output.done =>
        LET fixed == prune_simple_types_namespaces(input)
        IN  /\ output.type_nss = fixed.type_nss
            /\ output.replacements = fixed.replacements
            /\ output.compiled = fixed.compiled

\* Two simple types of one name were visited in one order by the count pass and
\* in the other by the selection pass, and one of them was replaced.
C17_Witness ==
    /\ output.done
    /\ Len(output.visited[1]) = 2
    /\ output.visited[1][1].name = output.visited[1][2].name
    /\ output.visited[1] # output.visited[2]
    /\ output.visited[1] # SetToSeq(DOMAIN input.simple_types)
    /\ DOMAIN output.replacements # {}

\* C18: rev_join and the optimizer have a result on every input, a loop that
\* has not ended can take its next step, and a loop over namespace.parent()
\* takes at most (segment count - 1) steps: the steps taken and the segments
\* left never exceed the segments it started with.
C18_Total ==
    /\ ~joined.done => ENABLED RevJoin
    /\ ~output.done => prune_simple_types_namespaces(input).done
    /\ ~walk.done => ENABLED WalkStep
    /\ walk.steps + Len(walk.cursor) <= Len(walk.namespace)
    /\ walk.steps <= Len(walk.namespace) - 1

\* A selection loop on a three-segment namespace has ended after two steps.
C18_Witness ==
    /\ walk.done
    /\ walk.pass = "select"
    /\ Len(walk.namespace) = 3
    /\ walk.steps = 2
    /\ walk.best = Some(<<walk.namespace[1]>>)

\* C19: two credentials with one username and two passwords have the same
\* Debug rendering and the same Display rendering.
C19_Redacted ==
    (shown.done /\ creds[1].username = creds[2].username
                /\ creds[1].password # creds[2].password) =>
        /\ shown.debug[1] = shown.debug[2]
        /\ shown.display[1] = shown.display[2]

\* Credentials of user u" with the passwords s and pw have been rendered.
C19_Witness ==
    /\ shown.done
    /\ creds[1] = BmcCredentials(<<"u", "\"">>, <<"s">>)
    /\ creds[2] = BmcCredentials(<<"u", "\"">>, <<"p", "w">>)
    /\ shown.debug[1] = shown.debug[2]
    /\ shown.display[1] = shown.display[2]

\* C20: oem_lenovo returns Ok(None) when the manager resource has no
\* Oem.Lenovo: no Oem member, or an Oem member without the key Lenovo.
C20_OkNoneWhenAbsent ==
    (lenovo.done /\ oem_get(manager.data, "Lenovo") = None) =>
        (lenovo.result.ok /\ lenovo.result.value = None)

\* C22: as the constructors are documented, a restrictive filter with no
\* pattern matches anything and a permissive filter with no pattern matches
\* nothing.
C22_EmptyAsDocumented ==
    (fcall.op = "filter" /\ fcall.filter.patterns = <<>>) =>
        (matched <=> ~fcall.filter.permissive)

C26_LookupInBounds ==
    fcall.op = "pattern" =>
        \A depth \in EntityTypeFilterPattern_lookups(fcall.pattern, typename) :
            /\ depth < Len(fcall.pattern.ns_ids)
            /\ depth < Len(typename.namespace)
            /\ IsSome(get_id(typename.namespace, depth))

\* A pattern of three exact segments has matched a name: all three depths were
\* looked up.
C26_Witness ==
    /\ fcall.op = "pattern"
    /\ Len(fcall.pattern.ns_ids) = 3
    /\ \A i \in 1..3 : IsSome(fcall.pattern.ns_ids[i])
    /\ matched
    /\ EntityTypeFilterPattern_lookups(fcall.pattern, typename) = {0, 1, 2}

\* C28: the replacement map is injective.
C28_Injective ==
    output.done =>
        \A a, b \in DOMAIN output.replacements :
            output.replacements[a] = output.replacements[b] => a = b

\* Two simple types of one name under one top-level namespace have been
\* replaced, by different names.
C28_Witness ==
    /\ output.done
    /\ \E a, b \in DOMAIN output.replacements :
          /\ a # b
          /\ a.name = b.name
          /\ a.namespace[1] = b.namespace[1]
          /\ output.replacements[a] # output.replacements[b]

\* C29: a pattern text without '.' that is "*" or identifiers parses into a
\* pattern with no namespace segment, and that pattern matches no name.
C29_NoNamespaceSegment ==
    (fcall.op = "parse" /\ \A i \in 1..Len(fcall.text) : fcall.text[i] # ".") =>
        /\ Offending(fcall.text) = {} => fcall.parsed.ok
        /\ fcall.parsed.ok => (fcall.parsed.ns_ids = <<>> /\ ~matched)

\* "Rt" has been parsed and has not matched the name Rt of namespace S.
C29_Witness ==
    /\ fcall.op = "parse"
    /\ fcall.text = <<"R", "t">>
    /\ fcall.parsed.ok
    /\ fcall.parsed.names = {<<"R", "t">>}
    /\ typename = QualifiedName(<<"R", "t">>, <<<<"S">>>>)
    /\ ~matched

\* C30: to_snake applied to its own output gives that output.
C30_SnakeIdempotent ==
    munged.fn = "to_snake" => to_snake(munged.out) = munged.out

\* to_snake has turned "nVMEfoobar" into "n_vm_efoobar", which it leaves as it is.
C30_Witness ==
    /\ munged.fn = "to_snake"
    /\ s = Text_nVMEfoobar
    /\ munged.out # s
    /\ to_snake(munged.out) = Text_n_vm_efoobar

\* C21: oem_hpe, oem_supermicro and the computer system's oem_lenovo return
\* Ok(None) exactly when the resource has no Oem member or the Oem member
\* lacks the vendor key; with the key they return Ok(Some) when its value
\* deserializes into the vendor schema and the JSON error otherwise.
VendorKeyOf(accessor) ==
    IF accessor = "oem_hpe" THEN "Hpe"
    ELSE IF accessor = "oem_supermicro" THEN "Supermicro"
    ELSE "Lenovo"

ResourceOf(accessor) == IF accessor = "oem_lenovo" THEN system ELSE manager

Deserializes(accessor, value) ==
    IF accessor = "oem_hpe" THEN HpeManagerSchema_from_value(value).ok
    ELSE IF accessor = "oem_supermicro" THEN SupermicroManagerSchema_from_value(value).ok
    ELSE LenovoSystemPropertiesSchema_from_value(value).ok

C21_NoneOnlyWhenAbsent ==
    \A a \in Accessors :
        accessed[a].done =>
            LET found == oem_get(ResourceOf(a).data, VendorKeyOf(a))
                result == accessed[a].result
            IN  /\ (result = Ok(None)) <=> (found = None)
                /\ IsSome(found) =>
                       IF Deserializes(a, Unwrap(found))
                       THEN result.ok /\ IsSome(Unwrap(result.value))
                       ELSE result = Err("Json")

\* A manager whose Oem.Hpe carries VirtualNICEnabled as a string and which has
\* no Oem.Supermicro: oem_hpe gave the JSON error and oem_supermicro Ok(None).
C21_Witness ==
    /\ accessed["oem_hpe"].done
    /\ accessed["oem_supermicro"].done
    /\ IsSome(oem_get(manager.data, "Hpe"))
    /\ Unwrap(oem_get(manager.data, "Hpe")).VirtualNICEnabled = Some("\"true\"")
    /\ oem_get(manager.data, "Supermicro") = None
    /\ accessed["oem_hpe"].result = Err("Json")
    /\ accessed["oem_supermicro"].result = Ok(None)

\* C24: front_panel_mode and port_switching_to read USBManagementPortAssignment
\* whenever the payload has that member, and FrontPanelUSB only when it has
\* not; with both, what USBManagementPortAssignment says is returned.
MemberValue(member, field) ==
    IF member.kind = "object" /\ IsSome(member[field]) /\ Unwrap(member[field]) # "null"
    THEN Some(Unwrap(FpMode_from_value(Unwrap(member[field])).value))
    ELSE None

SourceMember ==
    LET value == Unwrap(system.data.oem).additional_properties["Lenovo"]
    IN  IF value.USBManagementPortAssignment.kind # "absent"
        THEN value.USBManagementPortAssignment
        ELSE value.FrontPanelUSB

C24_UsbManagementFirst ==
    /\ panel.front_panel_mode.done =>
           panel.front_panel_mode.value = MemberValue(SourceMember, "FPMode")
    /\ panel.port_switching_to.done =>
           panel.port_switching_to.value = MemberValue(SourceMember, "PortSwitchingTo")

\* Both members are objects that disagree, and both getters returned what
\* USBManagementPortAssignment says.
C24_Witness ==
    /\ panel.front_panel_mode.done
    /\ panel.port_switching_to.done
    /\ LET value == Unwrap(system.data.oem).additional_properties["Lenovo"]
       IN  /\ value.USBManagementPortAssignment = JsonMember("object", Some("\"Server\""), Some("\"Server\""))
           /\ value.FrontPanelUSB = JsonMember("object", Some("\"BMC\""), Some("\"BMC\""))
    /\ panel.front_panel_mode.value = Some("Server")
    /\ panel.port_switching_to.value = Some("Server")

\* C23: a timestamp whose last five characters are a sign and four digits
\* comes back with a colon put between the second and the third digit and
\* nothing else changed; a timestamp that ends with a sign, two digits, a
\* colon and two digits gives None.
Signs == {"+", "-"}

EndsCompact(text) ==
    /\ Len(text) >= 5
    /\ text[Len(text) - 4] \in Signs
    /\ \A i \in (Len(text) - 3)..Len(text) : text[i] \in Digits

EndsWithColon(text) ==
    /\ Len(text) >= 6
    /\ text[Len(text) - 5] \in Signs
    /\ \A i \in {Len(text) - 4, Len(text) - 3, Len(text) - 1, Len(text)} : text[i] \in Digits
    /\ text[Len(text) - 2] = ":"

C23_ColonInserted ==
    patched.done =>
        /\ EndsCompact(timestamp) =>
               patched.result =
                   Some(SubSeq(timestamp, 1, Len(timestamp) - 2) \o <<":">>
                        \o SubSeq(timestamp, Len(timestamp) - 1, Len(timestamp)))
        /\ EndsWithColon(timestamp) => patched.result = None

\* A compact offset behind a two-byte character was rewritten.
C23_Witness ==
    /\ patched.done
    /\ timestamp = <<"C3", "A9", "-", "0", "6", "0", "0">>
    /\ patched.result = Some(<<"C3", "A9", "-", "0", "6", ":", "0", "0">>)

\* C27: set_boot_order sends one update, to the settings object when the
\* system has one and to the system otherwise; a fetch follows only an update
\* answered with an entity; a task or an empty answer gives Ok(None) and a
\* failed update gives Err, both with no further request.
Sent(method) == {i \in 1..Len(requests) : requests[i].method = method}

C27_OneUpdateThenFetch ==
    /\ boot.pc = "idle" => requests = <<>>
    /\ boot.pc # "idle" =>
           /\ Sent("update") = {1}
           /\ requests[1].target =
                  (IF computer.data.settings_object = None
                   THEN computer.data.odata_id
                   ELSE Unwrap(computer.data.settings_object))
           /\ requests[1].boot_order = boot.boot_order
    /\ Sent("get") # {} => (Sent("get") = {2} /\ boot.response.kind = "Entity")
    /\ boot.pc = "done" =>
           /\ boot.response.kind \in {"Task", "Empty"} =>
                  (boot.result = Ok(None) /\ Len(requests) = 1)
           /\ boot.response.kind = "Err" =>
                  (~boot.result.ok /\ Len(requests) = 1)
           /\ (boot.result.ok /\ boot.result # Ok(None)) => boot.response.kind = "Entity"

\* A system with a settings object: the update went to the settings object,
\* the entity it returned was fetched, and the call returned Ok(Some).
C27_Witness ==
    /\ boot.pc = "done"
    /\ computer.data = [odata_id |-> "/Systems/1", settings_object |-> Some("/Systems/1/SD")]
    /\ Len(requests) = 2
    /\ requests[1].method = "update" /\ requests[1].target = "/Systems/1/SD"
    /\ requests[2].method = "get"
    /\ boot.result = Ok(Some("Self"))

TypeOK ==
    /\ matched \in BOOLEAN
    /\ output.done \in BOOLEAN
    /\ joined.done \in BOOLEAN
    /\ munged.fn \in {"none", "to_snake", "to_camel"}


====
